---- MODULE Spec2Model ----
(***************************************************************************)
(* velomania: indoor cycling workout controller.                           *)
(*                                                                         *)
(* Spec     the workout engine (ZwoWorkout), its step primitives, the      *)
(*          state tracker (WorkoutState) and the router task               *)
(*          (start_workout) with the state publisher, against a discrete   *)
(*          clock.                                                         *)
(* SpecCtl  the command bus, the control task (control_fit_machine), the   *)
(*          Fitness Machine driver, the notification pump, the peripheral  *)
(*          and the signal handler.                                        *)
(* SpecEngine  the engine from ZwoWorkout::new on, polled by a caller      *)
(*          that sleeps until the armed timer has fired.                   *)
(* SpecStep one step of a workout on its own, under advance() and skip().  *)
(* SpecInput  the stdin thread (handle_user_input) and the web-socket       *)
(*          actor feeding the router's command channel.                    *)
(* SpecPump the driver's construction (supported-range reads) and the     *)
(*          notification pump on the bytes the peripheral sends.           *)
(* SpecParse  handle_bike_data_notification on every field combination.    *)
(* SpecScan BleClient::find_service, the loop over the adapter's events.   *)
(* SpecBcast  the broadcast channels of capacity 16 with slow receivers.   *)
(*                                                                         *)
(* Time is counted in clock units, TickPeriod units to the second.  Power  *)
(* levels are fractions of FTP in the source (f64); here they are integer  *)
(* percents, and the workouts used keep every ramp division exact.         *)
(***************************************************************************)
EXTENDS Integers, Sequences, FiniteSets, TLC

\* ------------------------------------------------------------------ bounds
\* clock units per second
TickPeriod == 2
\* the clock stops advancing here (units)
MaxTime == 10
\* user commands sent to the router over a run
MaxCmds == 1
\* HTTP / web-socket clients of the state publisher
MaxSubs == 1

\* ---------------------------------------------------------------- options
NoneVal == [some |-> FALSE]
Some(x) == [some |-> TRUE, v |-> x]

Min(a, b) == IF a < b THEN a ELSE b
Max(a, b) == IF a > b THEN a ELSE b

\* std::time::Duration::from_secs, in clock units
from_secs(s) == s * TickPeriod

\* Duration::saturating_sub
saturating_sub(a, b) == IF a > b THEN a - b ELSE 0

\* ------------------------------------------------------- step primitives
Kinds == {"Warmup", "Ramp", "SteadyState", "Cooldown", "IntervalsT", "FreeRide"}

Warmup(d, lo, hi) ==
    [kind |-> "Warmup", duration |-> d, power_low |-> lo, power_high |-> hi,
     power |-> 0, repeat |-> 0, on_duration |-> 0, off_duration |-> 0,
     on_power |-> 0, off_power |-> 0, current_interval |-> 0]

Ramp(d, lo, hi) == [Warmup(d, lo, hi) EXCEPT !.kind = "Ramp"]

Cooldown(d, lo, hi) == [Warmup(d, lo, hi) EXCEPT !.kind = "Cooldown"]

SteadyState(d, p) ==
    [Warmup(d, 0, 0) EXCEPT !.kind = "SteadyState", !.power = p]

FreeRide(d) == [Warmup(d, 0, 0) EXCEPT !.kind = "FreeRide"]

IntervalsT(r, on, off, onp, offp) ==
    [Warmup(0, 0, 0) EXCEPT !.kind = "IntervalsT", !.repeat = r,
        !.on_duration = on, !.off_duration = off,
        !.on_power = onp, !.off_power = offp]

\* PowerDuration: duration in clock units, power_level in percent of FTP
PowerDuration(d, p) == [duration |-> d, power_level |-> p]

\* advance() results: the item (an option) and the step as mutated
Adv(item, step) == [item |-> item, step |-> step]

\* a slip in Warmup::advance: the level is read after the increment
Warmup_advance_after(w) ==
    IF w.duration = 0 THEN Adv(NoneVal, w)
    ELSE LET span == w.power_high - w.power_low
             step == span \div w.duration
         IN Adv(Some(PowerDuration(from_secs(1), w.power_low + step)),
                [w EXCEPT !.duration = w.duration - 1,
                          !.power_low = w.power_low + step])

\* Warmup::advance and Ramp::advance (identical bodies)
Warmup_advance(w) ==
    IF w.duration = 0 THEN Adv(NoneVal, w)
    ELSE LET power_level == w.power_low
             span == w.power_high - w.power_low
             step == span \div w.duration
         IN Adv(Some(PowerDuration(from_secs(1), power_level)),
                [w EXCEPT !.duration = w.duration - 1,
                          !.power_low = w.power_low + step])

Cooldown_advance(w) ==
    IF w.duration = 0 THEN Adv(NoneVal, w)
    ELSE LET power_level == w.power_low
             span == w.power_low - w.power_high
             step == span \div w.duration
         IN Adv(Some(PowerDuration(from_secs(1), power_level)),
                [w EXCEPT !.duration = w.duration - 1,
                          !.power_low = w.power_low - step])

\* a slip in SteadyState::advance: the item lasts one second
SteadyState_advance_1s(w) ==
    IF w.duration = 0 THEN Adv(NoneVal, w)
    ELSE Adv(Some(PowerDuration(from_secs(1), w.power)),
             [w EXCEPT !.duration = 0])

SteadyState_advance(w) ==
    IF w.duration = 0 THEN Adv(NoneVal, w)
    ELSE Adv(Some(PowerDuration(from_secs(w.duration), w.power)),
             [w EXCEPT !.duration = 0])

FreeRide_advance(w) ==
    IF w.duration = 0 THEN Adv(NoneVal, w)
    ELSE Adv(Some(PowerDuration(from_secs(w.duration), 0)),
             [w EXCEPT !.duration = 0])

\* a slip in is_work_interval: the parity is inverted
is_work_interval_odd(w) == w.current_interval % 2 = 1

is_work_interval(w) == w.current_interval % 2 = 0

\* a slip in IntervalsT::advance: repeat is decremented on the work half too
IntervalsT_advance_early(w) ==
    IF w.repeat = 0 THEN Adv(NoneVal, w)
    ELSE IF is_work_interval(w)
         THEN Adv(Some(PowerDuration(from_secs(w.on_duration), w.on_power)),
                  [w EXCEPT !.repeat = w.repeat - 1,
                            !.current_interval = w.current_interval + 1])
         ELSE Adv(Some(PowerDuration(from_secs(w.off_duration), w.off_power)),
                  [w EXCEPT !.repeat = w.repeat - 1,
                            !.current_interval = w.current_interval + 1])

\* IntervalsT::advance
IntervalsT_advance(w) ==
    IF w.repeat = 0 THEN Adv(NoneVal, w)
    ELSE IF is_work_interval(w)
         THEN Adv(Some(PowerDuration(from_secs(w.on_duration), w.on_power)),
                  [w EXCEPT !.current_interval = w.current_interval + 1])
         ELSE Adv(Some(PowerDuration(from_secs(w.off_duration), w.off_power)),
                  [w EXCEPT !.repeat = w.repeat - 1,
                            !.current_interval = w.current_interval + 1])

\* WorkoutSteps::advance
advance(s) ==
    CASE s.kind = "Warmup" -> Warmup_advance(s)
      [] s.kind = "Ramp" -> Warmup_advance(s)
      [] s.kind = "SteadyState" -> SteadyState_advance(s)
      [] s.kind = "Cooldown" -> Cooldown_advance(s)
      [] s.kind = "IntervalsT" -> IntervalsT_advance(s)
      [] s.kind = "FreeRide" -> FreeRide_advance(s)

\* a slip in WorkoutSteps::skip: one more second instead of none
skip_rearms(s) ==
    IF s.kind = "IntervalsT" THEN s ELSE [s EXCEPT !.duration = 1]

\* a slip in WorkoutSteps::skip: an IntervalsT is emptied as well
skip_all(s) ==
    IF s.kind = "IntervalsT" THEN [s EXCEPT !.repeat = 0] ELSE [s EXCEPT !.duration = 0]

\* a slip in WorkoutSteps::skip: FreeRide and SteadyState left untouched
skip_ramps_only(s) ==
    IF s.kind \in {"Warmup", "Ramp", "Cooldown"} THEN [s EXCEPT !.duration = 0] ELSE s

\* WorkoutSteps::skip
skip(s) ==
    IF s.kind = "IntervalsT" THEN s ELSE [s EXCEPT !.duration = 0]

\* a slip in get_step_duration: the rest halves of an IntervalsT left out
get_step_duration_on_only(s) ==
    IF s.kind = "IntervalsT"
    THEN from_secs(s.repeat * s.on_duration)
    ELSE from_secs(s.duration)

\* WorkoutSteps::get_step_duration
get_step_duration(s) ==
    IF s.kind = "IntervalsT"
    THEN from_secs(s.repeat * (s.off_duration + s.on_duration))
    ELSE from_secs(s.duration)

RECURSIVE SumDurations(_)
SumDurations(steps) ==
    IF steps = <<>> THEN 0
    ELSE get_step_duration(Head(steps)) + SumDurations(Tail(steps))

\* a slip in remaining_workout_duration: the step already taken as the
\* current one is left out
remaining_workout_duration_tail(steps) ==
    IF steps = <<>> THEN 0 ELSE SumDurations(Tail(steps))

\* WorkoutFile::remaining_workout_duration (the fold over the steps)
remaining_workout_duration(steps) == SumDurations(steps)

\* common::get_power: (ftp_base * power_level).round() as i16; the cast
\* saturates.  power_level is in percent, so the product is divided by 100
\* and rounded half away from zero.
I16Min == -32768
I16Max == 32767

\* a slip in get_power: the fraction is cut off instead of rounded
get_power_trunc(ftp_base, power_level) ==
    LET a == ftp_base * power_level
        r == IF a >= 0 THEN a \div 100 ELSE -((-a) \div 100)
    IN Max(I16Min, Min(I16Max, r))

get_power(ftp_base, power_level) ==
    LET a == ftp_base * power_level
        r == IF a >= 0 THEN (a + 50) \div 100 ELSE -((50 - a) \div 100)
    IN Max(I16Min, Min(I16Max, r))


\* ------------------------------------------------------------- variables
VARIABLES
    \* --- clock
    now,              \* monotonic clock, in units
    \* --- workout engine (ZwoWorkout)
    workouts,         \* workout_file.workout.workouts: steps not yet started
    current_step,     \* the step being advanced
    pending,          \* Option<JoinHandle>: deadline of the timer task held
    timers,           \* deadlines of the spawned timer tasks still sleeping
    workout_state,    \* WorkoutState snapshot
    \* --- router task (start_workout)
    rstate,           \* "poll" | "polled" | "parked" | "done" | "panicked" | "aborted"
    nextTick,         \* deadline of propagate_workout_state
    cmds,             \* control_workout mpsc channel
    ncmds,            \* user commands sent so far
    emitted,          \* SetTargetPower commands sent on the command bus, in order
    routerExits,      \* Exit commands the router has sent
    \* --- state publisher
    state_tx_app,     \* app_state.workout_state_tx is Some
    state_tx_router,  \* the router task holds its clone of the sender
    subs,             \* state subscribers: "none" | "open" | "eos" | "rejected"
    \* --- observation of the run
    paused,           \* pause() was called and no skip_step()/resume since
    everPaused,       \* pause() was called at least once
    everSkipped,      \* skip_step() was called at least once
    lastSkip,         \* what the last skip_step() saw, until the next emission
    ended,            \* how the router left its loop: "no" | "exhausted" | "abort"
    workout,          \* the workout tree as parsed (never changed)
    \* --- command bus, control task, driver, peripheral (SpecCtl)
    bus_sub,          \* the control task has subscribed to the command bus
    bus_q,            \* commands waiting in the control task's receiver
    sent,             \* SetTargetPower commands sent on the bus, in order
    received,         \* SetTargetPower commands the control task received
    ctl_pc,           \* control task: "spawned" | "init" | "recv" | "await" | "done" | "panicked"
    cp_sub,           \* cp_notifications is subscribed
    cp_q,             \* indications waiting in cp_notifications
    periph_q,         \* indications the peripheral has still to send
    writes,           \* control-point writes the peripheral accepted, in order
    power_range,      \* the supported power range read at construction
    set_power_log,    \* what each set_power() call did
    cp_wait,          \* the write the control task last awaited, and what it got
    pump,             \* handle_notifications: "running" | "exited"
    sigint,           \* SIGINT was delivered
    disconnected,     \* the peripheral was disconnected
    \* --- construction (SpecEngine) and one step on its own (SpecStep)
    ctor,             \* ZwoWorkout::new: its result, "none" | "ok" | "err" | "panic", and input
    s_step0,          \* the step as parsed
    s_step,           \* the step as advance() and skip() have left it
    s_items,          \* the items advance() has returned, in order
    s_done,           \* advance() has returned None at least once
    s_last,           \* the last call on the step and what it saw
    s_nskips,         \* skip() calls so far
    \* --- user input: the stdin thread and the web-socket actor (SpecInput)
    in_pc,            \* stdin thread: "idle" | "reading" | "stopped" | "panicked"
    in_eof,           \* stdin is at end of file
    in_count,         \* lines and text messages handled so far
    in_last,          \* the last line or message handled and what was done
    \* --- driver construction and the notification pump on raw bytes (SpecPump)
    fit_ctor,         \* IndoorBikeFitnessMachine::new: "none" | "ok" | "err" | "panic"
    bike_sub,         \* a receiver of the indoor-bike broadcast exists
    pn_log,           \* what the pump did with each notification, oldest first
    pn_last,          \* the last notification taken and what the pump did with it
    \* --- BleClient::find_service (SpecScan)
    scan_pc,          \* "idle" | "scanning" | "returned" | "ended"
    scan_flag,        \* connection_successful and connected_device
    scan_events,      \* CentralEvents the adapter has emitted and the loop has not taken
    scan_dev,         \* per device: link state, and what the scan has done with it
    scan_ret,         \* the peripheral find_service returned
    \* --- broadcast channels with slow receivers (SpecBcast)
    bc_sent,          \* per channel: messages sent so far
    bc_rx,            \* per receiver: next message to read, what became of it
    bc_prod           \* the workout task: "idle" | "running" | "aborted"

engineVars == <<workouts, current_step, pending, timers, workout_state>>
routerVars == <<rstate, nextTick, cmds, ncmds, emitted, routerExits>>
pubVars == <<state_tx_app, state_tx_router, subs>>
obsVars == <<paused, everPaused, everSkipped, lastSkip, ended, workout>>
ctlVars == <<bus_sub, bus_q, sent, received, ctl_pc, cp_sub, cp_q, periph_q,
             writes, power_range, set_power_log, cp_wait, pump, sigint,
             disconnected>>
stepVars == <<s_step0, s_step, s_items, s_done, s_last, s_nskips>>
inVars == <<in_pc, in_eof, in_count, in_last>>
scanVars == <<scan_pc, scan_flag, scan_events, scan_dev, scan_ret>>
bcVars == <<bc_sent, bc_rx, bc_prod>>
drvVars == <<fit_ctor, bike_sub, pn_log, pn_last, scanVars, bcVars>>

\* ------------------------------------------------ state tracker (4.3)
\* WorkoutState::new; t is Instant::now()
WorkoutState_new(steps, ftp, t) ==
    [total_steps |-> Len(steps),
     current_step_number |-> 1,
     total_workout_duration |-> remaining_workout_duration(steps),
     next_step |-> IF Len(steps) >= 2 THEN Some(steps[2]) ELSE NoneVal,
     current_power_set |-> 0,
     ftp_base |-> ftp,
     current_step |-> [duration |-> get_step_duration(steps[1]),
                       step |-> steps[1], elapsed |-> 0, started |-> t],
     current_interval |-> NoneVal,
     workout_elapsed |-> 0,
     workout_started |-> t]

\* a slip in handle_next_step: next_step is read from the front of the queue
handle_next_step_stale_next(st, steps, t) ==
    IF steps = <<>> THEN st
    ELSE LET next == Head(steps) IN
         [st EXCEPT
            !.current_step = [duration |-> get_step_duration(next),
                              step |-> next, elapsed |-> 0, started |-> t],
            !.current_step_number = st.current_step_number + 1,
            !.current_interval = IF next.kind = "IntervalsT"
                                 THEN st.current_interval ELSE NoneVal,
            !.next_step = Some(steps[1])]

\* a slip in handle_next_step: the step number is not counted up
handle_next_step_no_count(st, steps, t) ==
    IF steps = <<>> THEN st
    ELSE LET next == Head(steps) IN
         [st EXCEPT
            !.current_step = [duration |-> get_step_duration(next),
                              step |-> next, elapsed |-> 0, started |-> t],
            !.current_interval = IF next.kind = "IntervalsT"
                                 THEN st.current_interval ELSE NoneVal,
            !.next_step = IF Len(steps) >= 2 THEN Some(steps[2]) ELSE NoneVal]

\* WorkoutState::handle_next_step; steps is the queue whose front is the
\* step being entered
handle_next_step(st, steps, t) ==
    IF steps = <<>> THEN st
    ELSE LET next == Head(steps) IN
         [st EXCEPT
            !.current_step = [duration |-> get_step_duration(next),
                              step |-> next, elapsed |-> 0, started |-> t],
            !.current_step_number = st.current_step_number + 1,
            !.current_interval = IF next.kind = "IntervalsT"
                                 THEN st.current_interval ELSE NoneVal,
            !.next_step = IF Len(steps) >= 2 THEN Some(steps[2]) ELSE NoneVal]

\* a slip in update_ts: the workout clock is read off the current step's start
update_ts_step_clock(st, t) ==
    [st EXCEPT
        !.current_step.elapsed = t - st.current_step.started,
        !.workout_elapsed = t - st.current_step.started,
        !.current_interval =
            IF st.current_interval.some
            THEN Some([st.current_interval.v EXCEPT
                          !.elapsed = t - st.current_interval.v.started])
            ELSE NoneVal]

\* WorkoutState::update_ts
update_ts(st, t) ==
    [st EXCEPT
        !.current_step.elapsed = t - st.current_step.started,
        !.workout_elapsed = t - st.workout_started,
        !.current_interval =
            IF st.current_interval.some
            THEN Some([st.current_interval.v EXCEPT
                          !.elapsed = t - st.current_interval.v.started])
            ELSE NoneVal]

\* WorkoutState::handle_step_advance
handle_step_advance(st, step, t) ==
    IF step.kind = "IntervalsT"
    THEN LET interval_duration == IF is_work_interval(step)
                                  THEN step.on_duration ELSE step.off_duration
         IN [st EXCEPT !.current_interval =
                Some([is_work_interval |-> is_work_interval(step),
                      repetition |-> (step.current_interval \div 2) + 1,
                      elapsed |-> 0,
                      duration |-> from_secs(interval_duration),
                      started |-> t])]
    ELSE st

\* a slip in handle_skip_step: the remaining time is added back
handle_skip_step_adds(st) ==
    LET remaining_time ==
            IF st.current_interval.some
            THEN saturating_sub(st.current_interval.v.duration,
                                st.current_interval.v.elapsed)
            ELSE saturating_sub(st.current_step.duration,
                                st.current_step.elapsed)
    IN [st EXCEPT !.total_workout_duration =
            st.total_workout_duration + remaining_time]

\* WorkoutState::handle_skip_step
handle_skip_step(st) ==
    LET remaining_time ==
            IF st.current_interval.some
            THEN saturating_sub(st.current_interval.v.duration,
                                st.current_interval.v.elapsed)
            ELSE saturating_sub(st.current_step.duration,
                                st.current_step.elapsed)
    IN [st EXCEPT !.total_workout_duration =
            saturating_sub(st.total_workout_duration, remaining_time)]


\* ------------------------------------------------ workout engine (4.2)
\* the snapshot hooks the engine calls while advancing: the half-interval
\* info is refreshed for the item being handed out, the step info when a
\* new step is entered
on_step_advance(st, step, item, t) ==
    IF item.some THEN handle_step_advance(st, step, t) ELSE st

on_next_step(st, steps, t) == handle_next_step(st, steps, t)

Eng(item, cs, q, st, panicked) ==
    [item |-> item, current_step |-> cs, workouts |-> q,
     workout_state |-> st, panicked |-> panicked]

set_current_power(st, item) ==
    IF item.some
    THEN [st EXCEPT !.current_power_set = get_power(st.ftp_base, item.v.power_level)]
    ELSE st

\* ZwoWorkout::advance_workout.  panicked: the expect() on the first
\* advance() of a fresh step failed.
advance_workout(cs, q, st, t) ==
    LET a == advance(cs) IN
    IF a.item.some
    THEN Eng(a.item, a.step, q,
             set_current_power(on_step_advance(st, cs, a.item, t), a.item), FALSE)
    ELSE IF q # <<>>
         THEN LET next == Head(q)
                  b == advance(next)
                  st2 == on_step_advance(on_next_step(st, q, t), next, b.item, t)
              IN Eng(b.item, b.step, Tail(q), set_current_power(st2, b.item),
                     ~b.item.some)
         ELSE Eng(NoneVal, a.step, q, st, FALSE)

\* Stream::poll_next with setup_timer.  res: "Pending", "Item", "End" or
\* "Panic"; the handle is taken out of `pending` before it is polled and is
\* not put back when the timer task has not finished.
poll_next(p, cs, q, st, t) ==
    IF p.some /\ t < p.v
    THEN [res |-> "Pending", pending |-> NoneVal, spawned |-> NoneVal,
          eng |-> Eng(NoneVal, cs, q, st, FALSE)]
    ELSE LET r == advance_workout(cs, q, st, t) IN
         IF r.panicked
         THEN [res |-> "Panic", pending |-> NoneVal, spawned |-> NoneVal, eng |-> r]
         ELSE IF r.item.some
         THEN [res |-> "Item", pending |-> Some(t + r.item.v.duration),
               spawned |-> Some(t + r.item.v.duration), eng |-> r]
         ELSE [res |-> "End", pending |-> NoneVal, spawned |-> NoneVal, eng |-> r]

\* ZwoWorkout::pause: takes the handle and aborts the timer task
pause(p, ts) ==
    [pending |-> NoneVal,
     timers |-> IF p.some THEN ts \ {p.v} ELSE ts]

\* ZwoWorkout::skip_step (4.2): the step's skip(), the snapshot's
\* handle_skip_step(), and the pending timer re-armed to fire at once
skip_step(p, ts, cs, st, t) ==
    [current_step |-> skip(cs),
     workout_state |-> handle_skip_step(st),
     pending |-> Some(t),
     timers |-> (IF p.some THEN ts \ {p.v} ELSE ts) \cup {t}]


\* -------------------------------------------------------------- inputs
\* the workouts the engine is run on (durations in seconds, powers in
\* percent of FTP); the second is the S4 scenario with shorter durations
Workouts ==
    { <<SteadyState(3, 90)>>,
      <<SteadyState(2, 50), IntervalsT(2, 1, 2, 100, 50)>>,
      <<Warmup(2, 0, 100), FreeRide(2), Cooldown(2, 100, 0)>>,
      <<SteadyState(0, 80), Ramp(2, 50, 70)>>,
      <<SteadyState(2, 80), IntervalsT(0, 1, 1, 100, 50), SteadyState(1, 60)>>,
      <<IntervalsT(1, 1, 1, 100, 50), SteadyState(1, 60)>> }

\* --ftp-base, in watts
FtpBases == {200}

WorkoutCommands == {"Pause", "Resume", "SkipStep", "Abort"}

SubIds == 1..MaxSubs

\* ------------------------------------------------ router task (4.7)
Running == rstate \in {"poll", "polled", "parked"}

TickDue == now >= nextTick

TimerFired == \E d \in timers : d <= now

\* a slip in the clean-up block: the guard is read, the sender not taken
guard_kept(present) == present

\* guard.take() on app_state.workout_state_tx: the Option is left None
guard_take(present) == FALSE

\* the router leaves its loop: Exit is sent on the command bus, the sender
\* is taken out of the shared state and the task ends, dropping its clone
RouterLeaves(how) ==
    /\ routerExits' = routerExits + 1
    /\ state_tx_app' = guard_take(state_tx_app)
    /\ state_tx_router' = FALSE
    /\ rstate' = "done"
    /\ ended' = how

\* the task dies on a panic: its locals (the sender clone) are dropped, the
\* clean-up block after the loop is not run
RouterPanics ==
    /\ rstate' = "panicked"
    /\ state_tx_router' = FALSE
    /\ UNCHANGED <<routerExits, state_tx_app, ended>>

\* what the observation keeps of an emission
Emission(r) ==
    [step |-> r.eng.workout_state.current_step_number,
     fresh |-> r.eng.workout_state.current_step_number > workout_state.current_step_number
               \/ current_step = workout[workout_state.current_step_number],
     item |-> r.eng.item.v,
     power |-> get_power(workout_state.ftp_base, r.eng.item.v.power_level),
     at |-> now,
     whilePaused |-> paused,
     afterSkip |-> lastSkip]

\* select!: workout.next() is polled and is not ready
NextPending ==
    /\ rstate = "poll"
    /\ LET r == poll_next(pending, current_step, workouts, workout_state, now) IN
        /\ r.res = "Pending"
        /\ pending' = r.pending
    /\ rstate' = "polled"
    /\ UNCHANGED <<ctor, inVars, drvVars, stepVars, ctlVars, now, workouts, current_step, timers, workout_state, nextTick,
                   cmds, ncmds, emitted, routerExits, pubVars, obsVars>>

\* select!: workout.next() yields a command, sent on the command bus
NextItem ==
    /\ rstate = "poll"
    /\ LET r == poll_next(pending, current_step, workouts, workout_state, now) IN
        /\ r.res = "Item"
        /\ pending' = r.pending
        /\ timers' = timers \cup {r.spawned.v}
        /\ current_step' = r.eng.current_step
        /\ workouts' = r.eng.workouts
        /\ workout_state' = r.eng.workout_state
        /\ emitted' = Append(emitted, Emission(r))
    /\ rstate' = "poll"
    /\ lastSkip' = NoneVal
    /\ UNCHANGED <<ctor, inVars, drvVars, stepVars, ctlVars, now, nextTick, cmds, ncmds, routerExits, pubVars,
                   paused, everPaused, everSkipped, ended, workout>>

\* select!: workout.next() yields None
NextEnd ==
    /\ rstate = "poll"
    /\ LET r == poll_next(pending, current_step, workouts, workout_state, now) IN
        /\ r.res = "End"
        /\ pending' = r.pending
        /\ current_step' = r.eng.current_step
    /\ RouterLeaves("exhausted")
    /\ UNCHANGED <<ctor, inVars, drvVars, stepVars, ctlVars, now, workouts, timers, workout_state, nextTick, cmds, ncmds,
                   emitted, subs, paused, everPaused, everSkipped, lastSkip, workout>>

\* workout.next() panics inside advance_workout
NextPanic ==
    /\ rstate = "poll"
    /\ LET r == poll_next(pending, current_step, workouts, workout_state, now) IN
        /\ r.res = "Panic"
        /\ pending' = r.pending
        /\ current_step' = r.eng.current_step
        /\ workouts' = r.eng.workouts
        /\ workout_state' = r.eng.workout_state
    /\ RouterPanics
    /\ UNCHANGED <<ctor, inVars, drvVars, stepVars, ctlVars, now, timers, nextTick, cmds, ncmds, emitted, subs,
                   paused, everPaused, everSkipped, lastSkip, workout>>

\* select!: propagate_workout_state.tick(): update_ts and broadcast
Tick ==
    /\ rstate \in {"poll", "polled"}
    /\ TickDue
    /\ nextTick' = nextTick + from_secs(1)
    /\ workout_state' = update_ts(workout_state, now)
    /\ rstate' = "poll"
    /\ UNCHANGED <<ctor, inVars, drvVars, stepVars, ctlVars, now, workouts, current_step, pending, timers, cmds, ncmds,
                   emitted, routerExits, pubVars, obsVars>>


\* the time really left, at clock t, of what skip_step() cuts short: the
\* current half-interval of an IntervalsT, the current step otherwise
RealRemaining(st, t) ==
    IF st.current_interval.some
    THEN saturating_sub(st.current_interval.v.duration,
                        t - st.current_interval.v.started)
    ELSE saturating_sub(st.current_step.duration, t - st.current_step.started)

\* select!: control_workout_rx.recv() yields Pause
CmdPause ==
    /\ rstate \in {"poll", "polled"}
    /\ cmds # <<>> /\ Head(cmds) = "Pause"
    /\ cmds' = Tail(cmds)
    /\ LET r == pause(pending, timers) IN
        /\ pending' = r.pending
        /\ timers' = r.timers
    /\ paused' = TRUE
    /\ everPaused' = TRUE
    /\ rstate' = "poll"
    /\ UNCHANGED <<ctor, inVars, drvVars, stepVars, ctlVars, now, workouts, current_step, workout_state, nextTick, ncmds,
                   emitted, routerExits, pubVars, everSkipped, lastSkip, ended,
                   workout>>

\* select!: control_workout_rx.recv() yields Resume: todo!()
CmdResume ==
    /\ rstate \in {"poll", "polled"}
    /\ cmds # <<>> /\ Head(cmds) = "Resume"
    /\ cmds' = Tail(cmds)
    /\ RouterPanics
    /\ UNCHANGED <<ctor, inVars, drvVars, stepVars, ctlVars, now, engineVars, nextTick, ncmds, emitted, subs,
                   paused, everPaused, everSkipped, lastSkip, workout>>

\* select!: control_workout_rx.recv() yields SkipStep
CmdSkipStep ==
    /\ rstate \in {"poll", "polled"}
    /\ cmds # <<>> /\ Head(cmds) = "SkipStep"
    /\ cmds' = Tail(cmds)
    /\ LET r == skip_step(pending, timers, current_step, workout_state, now) IN
        /\ pending' = r.pending
        /\ timers' = r.timers
        /\ current_step' = r.current_step
        /\ workout_state' = r.workout_state
        /\ lastSkip' = Some([at |-> now,
                             step |-> workout_state.current_step_number,
                             kind |-> current_step.kind,
                             current_interval |-> current_step.current_interval,
                             exhausted |-> ~advance(current_step).item.some,
                             remaining |-> RealRemaining(workout_state, now),
                             total_before |-> workout_state.total_workout_duration,
                             total_after |-> r.workout_state.total_workout_duration])
    /\ paused' = FALSE
    /\ everSkipped' = TRUE
    /\ rstate' = "poll"
    /\ UNCHANGED <<ctor, inVars, drvVars, stepVars, ctlVars, now, workouts, nextTick, ncmds, emitted, routerExits, pubVars,
                   everPaused, ended, workout>>

\* select!: control_workout_rx.recv() yields Abort
CmdAbort ==
    /\ rstate \in {"poll", "polled"}
    /\ cmds # <<>> /\ Head(cmds) = "Abort"
    /\ cmds' = Tail(cmds)
    /\ RouterLeaves("abort")
    /\ UNCHANGED <<ctor, inVars, drvVars, stepVars, ctlVars, now, engineVars, nextTick, ncmds, emitted, subs,
                   paused, everPaused, everSkipped, lastSkip, workout>>

\* select!: every branch is pending, the task is suspended
Park ==
    /\ rstate = "polled"
    /\ ~TickDue
    /\ cmds = <<>>
    /\ rstate' = "parked"
    /\ UNCHANGED <<ctor, inVars, drvVars, stepVars, ctlVars, now, engineVars, nextTick, cmds, ncmds, emitted, routerExits,
                   pubVars, obsVars>>

\* the task is woken (interval deadline, spawned timer's waker, a command)
\* and select! polls its branches again
WakeUp ==
    /\ rstate = "parked"
    /\ TickDue \/ TimerFired \/ cmds # <<>>
    /\ timers' = {d \in timers : d > now}
    /\ rstate' = "poll"
    /\ UNCHANGED <<ctor, inVars, drvVars, stepVars, ctlVars, now, workouts, current_step, pending, workout_state, nextTick,
                   cmds, ncmds, emitted, routerExits, pubVars, obsVars>>

\* time passes while the router task is suspended and nothing wakes it
Advance ==
    /\ rstate = "parked"
    /\ ~TickDue /\ ~TimerFired /\ cmds = <<>>
    /\ now < MaxTime
    /\ now' = now + 1
    /\ UNCHANGED <<ctor, inVars, drvVars, stepVars, ctlVars, engineVars, routerVars, pubVars, obsVars>>

\* handle_user_input / the web-socket actor: a command for the router
UserSend(c) ==
    /\ Running
    /\ ncmds < MaxCmds
    /\ ncmds' = ncmds + 1
    /\ cmds' = Append(cmds, c)
    /\ UNCHANGED <<ctor, inVars, drvVars, stepVars, ctlVars, now, engineVars, rstate, nextTick, emitted, routerExits,
                   pubVars, obsVars>>

\* ------------------------------------------------ state publisher (4.8)
\* the broadcast channel is closed once every sender is dropped
Closed == ~state_tx_app /\ ~state_tx_router

\* workout_state_handle / web_socket_handle: subscribe, or 400
Subscribe(i) ==
    /\ subs[i] = "none"
    /\ subs' = [subs EXCEPT ![i] = IF state_tx_app THEN "open" ELSE "rejected"]
    /\ UNCHANGED <<ctor, inVars, drvVars, stepVars, ctlVars, now, engineVars, routerVars, state_tx_app, state_tx_router,
                   obsVars>>

\* a subscriber's stream yields None: the channel is closed
SubEnd(i) ==
    /\ subs[i] = "open"
    /\ Closed
    /\ subs' = [subs EXCEPT ![i] = "eos"]
    /\ UNCHANGED <<ctor, inVars, drvVars, stepVars, ctlVars, now, engineVars, routerVars, state_tx_app, state_tx_router,
                   obsVars>>

\* ------------------------------------------------------- specification
\* no step is exercised on its own in Spec and SpecCtl
StepIdle ==
    /\ s_step0 = NoneVal
    /\ s_step = NoneVal
    /\ s_items = <<>>
    /\ s_done = FALSE
    /\ s_last = [op |-> "none"]
    /\ s_nskips = 0

\* find_service is not running
ScanIdle ==
    /\ scan_pc = "idle"
    /\ scan_flag = NoneVal
    /\ scan_events = <<>>
    /\ scan_dev = NoneVal
    /\ scan_ret = NoneVal

\* the lag of the broadcast receivers is left out
BcastIdle ==
    /\ bc_sent = NoneVal
    /\ bc_rx = NoneVal
    /\ bc_prod = "idle"

\* the driver is constructed; raw notifications are left out
DriverIdle ==
    /\ ScanIdle
    /\ BcastIdle
    /\ fit_ctor = [result |-> "ok"]
    /\ bike_sub = TRUE
    /\ pn_log = <<>>
    /\ pn_last = [uuid |-> "none"]

\* handle_user_input is not called yet and no web-socket client is connected
InputIdle ==
    /\ in_pc = "idle"
    /\ in_eof = FALSE
    /\ in_count = 0
    /\ in_last = [src |-> "none"]

\* the command bus and the control task are left out of Spec
CtlIdle ==
    /\ bus_sub = FALSE
    /\ bus_q = <<>>
    /\ sent = <<>>
    /\ received = <<>>
    /\ ctl_pc = "spawned"
    /\ cp_sub = FALSE
    /\ cp_q = <<>>
    /\ periph_q = <<>>
    /\ writes = <<>>
    /\ power_range = [min |-> 0, max |-> 0, step |-> 0]
    /\ set_power_log = <<>>
    /\ cp_wait = NoneVal
    /\ pump = "running"
    /\ sigint = FALSE
    /\ disconnected = FALSE

\* ZwoWorkout::new and the start of the router task, at clock 0
Init ==
    /\ now = 0
    /\ workout \in Workouts
    /\ \E ftp \in FtpBases : workout_state = WorkoutState_new(workout, ftp, 0)
    /\ current_step = Head(workout)
    /\ workouts = Tail(workout)
    /\ pending = NoneVal
    /\ timers = {}
    /\ rstate = "poll"
    /\ nextTick = 0
    /\ cmds = <<>>
    /\ ncmds = 0
    /\ emitted = <<>>
    /\ routerExits = 0
    /\ state_tx_app = TRUE
    /\ state_tx_router = TRUE
    /\ subs = [i \in SubIds |-> "none"]
    /\ paused = FALSE
    /\ everPaused = FALSE
    /\ everSkipped = FALSE
    /\ lastSkip = NoneVal
    /\ ended = "no"
    /\ ctor = [result |-> "ok"]
    /\ StepIdle
    /\ CtlIdle
    /\ InputIdle
    /\ DriverIdle

vars == <<now, engineVars, routerVars, pubVars, obsVars, ctlVars, ctor, stepVars,
          inVars, drvVars>>

Next ==
    \/ NextPending
    \/ NextItem
    \/ NextEnd
    \/ NextPanic
    \/ Tick
    \/ CmdPause
    \/ CmdResume
    \/ CmdSkipStep
    \/ CmdAbort
    \/ Park
    \/ WakeUp
    \/ Advance
    \/ \E c \in WorkoutCommands : UserSend(c)
    \/ \E i \in SubIds : Subscribe(i)
    \/ \E i \in SubIds : SubEnd(i)

Spec == Init /\ [][Next]_vars


\* ==================================================== SpecCtl (4.6, 4.7)
\* ------------------------------------------------------ bounds, inputs
\* SetTargetPower commands the workout task sends over a run
MaxSetpoints == 2

\* the watts the workout task asks for: below, at and above the range ends
SetpointPowers == {-1, 0, 300, 350}

\* the supported power range the device reports (S5: min 0, max 300, step 1)
PowerRanges == {[min |-> 0, max |-> 300, step |-> 1]}

\* ControlPointOpCode
OpRequestControl == 0
OpReset == 1
OpSetTargetPower == 5

\* --------------------------------------------- Fitness Machine driver
\* a slip in Range::in_range: the upper bound is excluded
in_range_open(r, value) == value >= r.min /\ value < r.max

\* Range::in_range
in_range(r, value) == value >= r.min /\ value <= r.max

\* LittleEndian::write_i16: two's complement, low byte first
write_i16(v) ==
    LET u == IF v < 0 THEN v + 65536 ELSE v IN <<u % 256, u \div 256>>

\* LittleEndian::read_i16
read_i16(b) ==
    LET u == b[1] + 256 * b[2] IN IF u >= 32768 THEN u - 65536 ELSE u

\* IndoorBikeFitnessMachine::set_power.  frame: the bytes handed to
\* client.write; written: the peripheral accepted them (write_ok is the
\* outcome of the BLE write, whose failure is logged and not returned).
set_power(range, power, write_ok) ==
    IF ~in_range(range, power)
    THEN [result |-> "Err", frame |-> NoneVal, written |-> FALSE]
    ELSE [result |-> "Ok",
          frame |-> Some(<<OpSetTargetPower>> \o write_i16(power)),
          written |-> write_ok]

\* reset_status: the Reset opcode written to the control point; a failed
\* write is returned to the caller
reset_status(write_ok) ==
    [result |-> IF write_ok THEN "Ok" ELSE "Err",
     frame |-> Some(<<OpReset>>),
     written |-> write_ok]

\* the indication the peripheral answers an accepted write with, as
\* handle_control_point_notification decodes it
Indication(frame) == [request_op_code |-> frame[1], request_status |-> "Success"]

\* indications of earlier writes the control task has not consumed
Outstanding == Len(periph_q) + Len(cp_q)

WriteRec(who, frame) == [by |-> who, frame |-> frame, outstanding |-> Outstanding]

\* ------------------------------------------------------- command bus
\* broadcast::Sender::send: every receiver subscribed now gets the message
BusSend(m) == bus_q' = IF bus_sub THEN Append(bus_q, m) ELSE bus_q

specOnlyVars == <<now, engineVars, nextTick, cmds, ncmds, emitted, subs,
                  paused, everPaused, everSkipped, lastSkip, workout>>

\* ------------------------------------- workout task, seen from the bus
\* start_workout: the task's first poll sends StartWorkout
RouterStart ==
    /\ rstate = "spawned"
    /\ BusSend([cmd |-> "StartWorkout"])
    /\ rstate' = "run"
    /\ UNCHANGED <<ctor, inVars, drvVars, stepVars, specOnlyVars, cp_wait, pump, routerExits, pubVars, ended, bus_sub, sent,
                   received, ctl_pc, cp_sub, cp_q, periph_q, writes, power_range,
                   set_power_log, sigint, disconnected>>

\* start_workout: workout.next() yields SetTargetPower, sent on the bus
RouterSetpoint(p) ==
    /\ rstate = "run"
    /\ Len(sent) < MaxSetpoints
    /\ LET m == [cmd |-> "SetTargetPower", n |-> Len(sent) + 1, power |-> p] IN
        /\ sent' = Append(sent, [n |-> m.n, power |-> p])
        /\ BusSend(m)
    /\ UNCHANGED <<ctor, inVars, drvVars, stepVars, specOnlyVars, cp_wait, pump, rstate, routerExits, pubVars, ended, bus_sub,
                   received, ctl_pc, cp_sub, cp_q, periph_q, writes, power_range,
                   set_power_log, sigint, disconnected>>

\* start_workout: end of workout or Abort
RouterExit(how) ==
    /\ rstate = "run"
    /\ BusSend([cmd |-> "Exit"])
    /\ RouterLeaves(how)
    /\ UNCHANGED <<ctor, inVars, drvVars, stepVars, specOnlyVars, cp_wait, pump, subs, bus_sub, sent, received, ctl_pc, cp_sub,
                   cp_q, periph_q, writes, power_range, set_power_log, sigint,
                   disconnected>>

\* register_signal_handler: SIGINT sends Exit on the command bus
Sigint ==
    /\ ~sigint
    /\ sigint' = TRUE
    /\ BusSend([cmd |-> "Exit"])
    /\ UNCHANGED <<ctor, inVars, drvVars, stepVars, specOnlyVars, cp_wait, pump, rstate, routerExits, pubVars, ended, bus_sub,
                   sent, received, ctl_pc, cp_sub, cp_q, periph_q, writes,
                   power_range, set_power_log, disconnected>>

\* ---------------------------------------------------- control task
\* main: the spawned block is polled: trainer_commands_tx.subscribe()
CtlStart ==
    /\ ctl_pc = "spawned"
    /\ bus_sub' = TRUE
    /\ ctl_pc' = "init"
    /\ UNCHANGED <<ctor, inVars, drvVars, stepVars, specOnlyVars, cp_wait, pump, rstate, routerExits, pubVars, ended, bus_q, sent,
                   received, cp_sub, cp_q, periph_q, writes, power_range,
                   set_power_log, sigint, disconnected>>

\* control_fit_machine: after dump_service_info and get_features,
\* subscribe_for_control_point_notifications
CtlSubscribeCp ==
    /\ ctl_pc = "init"
    /\ cp_sub' = TRUE
    /\ ctl_pc' = "recv"
    /\ UNCHANGED <<ctor, inVars, drvVars, stepVars, specOnlyVars, cp_wait, pump, rstate, routerExits, pubVars, ended, bus_sub,
                   bus_q, sent, received, cp_q, periph_q, writes, power_range,
                   set_power_log, sigint, disconnected>>

\* the task ends (returns or panics): its receivers are dropped
CtlDrops ==
    /\ bus_sub' = FALSE
    /\ bus_q' = <<>>
    /\ cp_sub' = FALSE
    /\ cp_q' = <<>>

\* control_fit_machine: Exit: leave the loop, disconnect; the spawned
\* block then aborts the workout task
CtlRecvExit ==
    /\ ctl_pc = "recv"
    /\ bus_q # <<>> /\ Head(bus_q).cmd = "Exit"
    /\ CtlDrops
    /\ disconnected' = TRUE
    /\ ctl_pc' = "done"
    /\ IF rstate \in {"spawned", "run"}
       THEN rstate' = "aborted" /\ state_tx_router' = FALSE
       ELSE UNCHANGED <<rstate, state_tx_router>>
    /\ UNCHANGED <<ctor, inVars, drvVars, stepVars, specOnlyVars, cp_wait, pump, routerExits, state_tx_app, ended, sent, received,
                   periph_q, writes, power_range, set_power_log, sigint>>

\* control_fit_machine: SetTargetPower: fit.set_power(power).await?
CtlRecvSetPower(write_ok) ==
    /\ ctl_pc = "recv"
    /\ bus_q # <<>> /\ Head(bus_q).cmd = "SetTargetPower"
    /\ write_ok => pump = "running"
    /\ LET m == Head(bus_q)
           r == set_power(power_range, m.power, write_ok)
       IN /\ received' = Append(received, [n |-> m.n, power |-> m.power])
          /\ set_power_log' = Append(set_power_log,
                [power |-> m.power, result |-> r.result, frame |-> r.frame,
                 written |-> r.written])
          /\ IF r.result = "Err"
             THEN /\ ctl_pc' = "panicked"
                  /\ CtlDrops
                  /\ UNCHANGED <<writes, periph_q, cp_wait>>
             ELSE /\ ctl_pc' = "await"
                  /\ cp_wait' = Some([op |-> r.frame.v[1], written |-> r.written,
                                      got |-> NoneVal])
                  /\ bus_q' = Tail(bus_q)
                  /\ writes' = IF r.written
                               THEN Append(writes, WriteRec("ctl", r.frame.v))
                               ELSE writes
                  /\ periph_q' = IF r.written
                                 THEN Append(periph_q, Indication(r.frame.v))
                                 ELSE periph_q
                  /\ UNCHANGED <<bus_sub, cp_sub, cp_q>>
    /\ UNCHANGED <<ctor, inVars, drvVars, stepVars, specOnlyVars, pump, rstate, routerExits, pubVars, ended, sent,
                   power_range, sigint, disconnected>>

\* control_fit_machine: StartWorkout: fit.reset_status().await?
CtlRecvStart(write_ok) ==
    /\ ctl_pc = "recv"
    /\ bus_q # <<>> /\ Head(bus_q).cmd = "StartWorkout"
    /\ write_ok => pump = "running"
    /\ LET r == reset_status(write_ok) IN
          IF r.result = "Err"
          THEN /\ ctl_pc' = "panicked"
               /\ CtlDrops
               /\ UNCHANGED <<writes, periph_q, cp_wait>>
          ELSE /\ ctl_pc' = "await"
               /\ cp_wait' = Some([op |-> r.frame.v[1], written |-> TRUE,
                                   got |-> NoneVal])
               /\ bus_q' = Tail(bus_q)
               /\ writes' = Append(writes, WriteRec("ctl", r.frame.v))
               /\ periph_q' = Append(periph_q, Indication(r.frame.v))
               /\ UNCHANGED <<bus_sub, cp_sub, cp_q>>
    /\ UNCHANGED <<ctor, inVars, drvVars, stepVars, specOnlyVars, pump, rstate, routerExits, pubVars, ended, sent,
                   received, power_range, set_power_log, sigint, disconnected>>

\* control_fit_machine: cp_notifications.recv() yields an indication
CtlGetInd ==
    /\ ctl_pc = "await"
    /\ cp_q # <<>>
    /\ cp_q' = Tail(cp_q)
    /\ cp_wait' = Some([cp_wait.v EXCEPT !.got = Some(Head(cp_q))])
    /\ ctl_pc' = "recv"
    /\ UNCHANGED <<ctor, inVars, drvVars, stepVars, specOnlyVars, pump, rstate, routerExits, pubVars, ended, bus_sub,
                   bus_q, sent, received, cp_sub, periph_q, writes, power_range,
                   set_power_log, sigint, disconnected>>

\* handle_notifications: a control-point indication arrives and is sent on
\* the control-point broadcast (a no-op without a receiver)
PumpDeliver ==
    /\ pump = "running"
    /\ periph_q # <<>>
    /\ periph_q' = Tail(periph_q)
    /\ cp_q' = IF cp_sub THEN Append(cp_q, Head(periph_q)) ELSE cp_q
    /\ UNCHANGED <<ctor, inVars, drvVars, stepVars, specOnlyVars, cp_wait, pump, rstate, routerExits, pubVars, ended, bus_sub,
                   bus_q, sent, received, ctl_pc, cp_sub, writes, power_range,
                   set_power_log, sigint, disconnected>>

\* handle_notifications: the peripheral is gone, notifications.next()
\* yields None and the pump leaves its loop; the control-point channel
\* stays open, the client struct holds a sender of it.  Indications not yet
\* delivered are lost and later writes fail.
PumpExit ==
    /\ pump = "running"
    /\ pump' = "exited"
    /\ periph_q' = <<>>
    /\ UNCHANGED <<ctor, inVars, drvVars, stepVars, specOnlyVars, cp_wait, rstate, routerExits, pubVars,
                   ended, bus_sub, bus_q, sent, received, ctl_pc, cp_sub, cp_q,
                   writes, power_range, set_power_log, sigint, disconnected>>


\* main, up to the two spawns: IndoorBikeFitnessMachine::new has read the
\* power range and written RequestControl without awaiting its indication
InitCtl ==
    /\ now = 0
    /\ workout = <<>>
    /\ workouts = <<>>
    /\ current_step = NoneVal
    /\ pending = NoneVal
    /\ timers = {}
    /\ workout_state = NoneVal
    /\ nextTick = 0
    /\ cmds = <<>>
    /\ ncmds = 0
    /\ emitted = <<>>
    /\ subs = [i \in SubIds |-> "none"]
    /\ paused = FALSE
    /\ everPaused = FALSE
    /\ everSkipped = FALSE
    /\ lastSkip = NoneVal
    /\ ended = "no"
    /\ rstate = "spawned"
    /\ routerExits = 0
    /\ state_tx_app = TRUE
    /\ state_tx_router = TRUE
    /\ bus_sub = FALSE
    /\ bus_q = <<>>
    /\ sent = <<>>
    /\ received = <<>>
    /\ ctl_pc = "spawned"
    /\ cp_sub = FALSE
    /\ cp_q = <<>>
    /\ periph_q = <<Indication(<<OpRequestControl>>)>>
    /\ writes = <<[by |-> "new", frame |-> <<OpRequestControl>>, outstanding |-> 0]>>
    /\ power_range \in PowerRanges
    /\ set_power_log = <<>>
    /\ cp_wait = NoneVal
    /\ pump = "running"
    /\ sigint = FALSE
    /\ disconnected = FALSE
    /\ ctor = [result |-> "ok"]
    /\ StepIdle
    /\ InputIdle
    /\ DriverIdle

NextCtl ==
    \/ RouterStart
    \/ \E p \in SetpointPowers : RouterSetpoint(p)
    \/ \E how \in {"exhausted", "abort"} : RouterExit(how)
    \/ Sigint
    \/ CtlStart
    \/ CtlSubscribeCp
    \/ CtlRecvExit
    \/ \E ok \in BOOLEAN : CtlRecvSetPower(ok)
    \/ \E ok \in BOOLEAN : CtlRecvStart(ok)
    \/ CtlGetInd
    \/ PumpDeliver
    \/ PumpExit

SpecCtl == InitCtl /\ [][NextCtl]_vars

\* ================================================= SpecEngine (4.1, 4.2)
\* The engine from its construction on, polled by a caller that sleeps
\* until the armed timer has fired.
\* ------------------------------------------------------ bounds, inputs
\* skip_step() calls over a run
MaxSkips == 1

\* the S1 and S4 scenarios as written, an empty workout, a workout whose
\* first step is empty, and steps whose watts round or saturate
EngineWorkouts ==
    { <<>>,
      <<Warmup(4, 0, 100)>>,
      <<SteadyState(10, 50), IntervalsT(2, 60, 120, 100, 50)>>,
      <<SteadyState(0, 80), Ramp(2, 50, 70)>>,
      <<SteadyState(1, 90), FreeRide(2)>> }

\* what reading and parsing the .zwo file gives: an error, or the steps
WorkoutFiles ==
    {[parsed |-> FALSE, steps |-> <<>>]}
        \cup {[parsed |-> TRUE, steps |-> w] : w \in EngineWorkouts}

\* --ftp-base, in watts
EngineFtps == {-40000, -3, 0, 3, 200, 40000}

\* ZwoWorkout::new with WorkoutState::new: an unreadable or unparsable
\* file is returned as Err; the first step is taken with expect()
ZwoWorkout_new(file, ftp, t) ==
    IF ~file.parsed THEN [result |-> "err"]
    ELSE IF file.steps = <<>> THEN [result |-> "panic"]
    ELSE [result |-> "ok",
          current_step |-> Head(file.steps),
          workouts |-> Tail(file.steps),
          pending |-> NoneVal,
          workout_state |-> WorkoutState_new(file.steps, ftp, t)]

engIdleVars == <<nextTick, cmds, emitted, routerExits, pubVars, paused,
                 everPaused, lastSkip, ended>>

\* start_workout: ZwoWorkout::new(workout, ftp_base).await?, then the
\* workout task is spawned
Construct(file, ftp) ==
    /\ ctor.result = "none"
    /\ LET r == ZwoWorkout_new(file, ftp, now) IN
        /\ ctor' = [result |-> r.result, file |-> file]
        /\ IF r.result = "ok"
           THEN /\ current_step' = r.current_step
                /\ workouts' = r.workouts
                /\ pending' = r.pending
                /\ workout_state' = r.workout_state
                /\ workout' = file.steps
                /\ rstate' = "poll"
           ELSE UNCHANGED <<current_step, workouts, pending, workout_state,
                            workout, rstate>>
    /\ UNCHANGED <<now, timers, nextTick, cmds, ncmds, emitted, routerExits,
                   pubVars, paused, everPaused, everSkipped, lastSkip, ended,
                   ctlVars, inVars, drvVars, stepVars>>

\* the caller sleeps until the timer task has finished
EngSleep ==
    /\ rstate = "poll"
    /\ pending.some /\ now < pending.v
    /\ now' = pending.v
    /\ timers' = {}
    /\ UNCHANGED <<ctor, workouts, current_step, pending, workout_state, rstate,
                   ncmds, everSkipped, workout, engIdleVars, ctlVars, inVars, drvVars,
                   stepVars>>

\* workout.next() once the timer has fired (or none is armed)
EngNext ==
    /\ rstate = "poll"
    /\ ~(pending.some /\ now < pending.v)
    /\ LET r == poll_next(pending, current_step, workouts, workout_state, now) IN
        /\ pending' = r.pending
        /\ timers' = IF r.spawned.some THEN {r.spawned.v} ELSE {}
        /\ current_step' = r.eng.current_step
        /\ workouts' = r.eng.workouts
        /\ workout_state' = r.eng.workout_state
        /\ emitted' = IF r.res = "Item" THEN Append(emitted, Emission(r)) ELSE emitted
        /\ rstate' = CASE r.res = "Item" -> "poll"
                       [] r.res = "End" -> "done"
                       [] r.res = "Panic" -> "panicked"
    /\ UNCHANGED <<ctor, now, nextTick, cmds, ncmds, routerExits, pubVars, paused,
                   everPaused, everSkipped, lastSkip, ended, workout, ctlVars,
                   inVars, drvVars, stepVars>>

\* workout.skip_step() while an item is being held
EngSkip ==
    /\ rstate = "poll"
    /\ pending.some
    /\ ncmds < MaxSkips
    /\ ncmds' = ncmds + 1
    /\ LET r == skip_step(pending, timers, current_step, workout_state, now) IN
        /\ pending' = r.pending
        /\ timers' = r.timers
        /\ current_step' = r.current_step
        /\ workout_state' = r.workout_state
    /\ everSkipped' = TRUE
    /\ UNCHANGED <<ctor, now, workouts, rstate, workout, engIdleVars, ctlVars,
                   inVars, drvVars, stepVars>>

\* nothing is constructed yet and no task runs
EngineIdle ==
    /\ now = 0
    /\ ctor = [result |-> "none"]
    /\ workout = <<>>
    /\ workouts = <<>>
    /\ current_step = NoneVal
    /\ pending = NoneVal
    /\ timers = {}
    /\ workout_state = NoneVal
    /\ rstate = "none"
    /\ nextTick = 0
    /\ cmds = <<>>
    /\ ncmds = 0
    /\ emitted = <<>>
    /\ routerExits = 0
    /\ state_tx_app = TRUE
    /\ state_tx_router = FALSE
    /\ subs = [i \in SubIds |-> "none"]
    /\ paused = FALSE
    /\ everPaused = FALSE
    /\ everSkipped = FALSE
    /\ lastSkip = NoneVal
    /\ ended = "no"
    /\ CtlIdle
    /\ InputIdle
    /\ DriverIdle

\* start_workout is entered
InitEngine == EngineIdle /\ StepIdle

NextEngine ==
    \/ \E file \in WorkoutFiles, ftp \in EngineFtps : Construct(file, ftp)
    \/ EngSleep
    \/ EngNext
    \/ EngSkip

SpecEngine == InitEngine /\ [][NextEngine]_vars

\* ======================================================= SpecStep (4.1)
\* One step of a workout on its own: advance() and skip() called in any
\* order on a step as parsed.
\* ------------------------------------------------------ bounds, inputs
\* longest Duration attribute of a step, in seconds
MaxDur == 3
\* largest Repeat attribute of an IntervalsT
MaxRepeat == 2
\* skip() calls on the step
MaxStepSkips == 2

\* power levels in percent of FTP; multiples of 60 keep the ramp divisions
\* exact for every duration used
StepLevels == {0, 60, 120}

\* (power_low, power_high) of a rising and of a falling ramp
RisingLevels == {p \in StepLevels \X StepLevels : p[1] <= p[2]}
FallingLevels == {p \in StepLevels \X StepLevels : p[1] >= p[2]}

StepInputs ==
    {Warmup(d, p[1], p[2]) : d \in 0..MaxDur, p \in RisingLevels}
    \cup {Ramp(d, p[1], p[2]) : d \in 0..MaxDur, p \in RisingLevels}
    \cup {Cooldown(d, p[1], p[2]) : d \in 0..MaxDur, p \in FallingLevels}
    \cup {SteadyState(d, 60) : d \in 0..MaxDur}
    \cup {FreeRide(d) : d \in 0..MaxDur}
    \cup {IntervalsT(r, on, off, 120, 60) : r \in 0..MaxRepeat,
        on \in {1, 2}, off \in {1, 3}}

stepIdleVars == <<now, engineVars, routerVars, pubVars, obsVars, ctlVars, ctor,
                  inVars, drvVars>>

\* WorkoutSteps::advance called on the step
StepAdvance ==
    /\ LET a == advance(s_step) IN
        /\ s_step' = a.step
        /\ s_items' = IF a.item.some THEN Append(s_items, a.item.v) ELSE s_items
        /\ s_done' = (s_done \/ ~a.item.some)
        /\ s_last' = [op |-> "advance", prev |-> s_last.op, before |-> s_step,
                      done |-> s_done, item |-> a.item]
    /\ UNCHANGED <<s_step0, s_nskips, stepIdleVars>>

\* WorkoutSteps::skip called on the step
StepSkip ==
    /\ s_nskips < MaxStepSkips
    /\ s_nskips' = s_nskips + 1
    /\ s_step' = skip(s_step)
    /\ s_last' = [op |-> "skip", prev |-> s_last.op, before |-> s_step,
                  done |-> s_done, item |-> NoneVal]
    /\ UNCHANGED <<s_step0, s_items, s_done, stepIdleVars>>

\* the step as deserialized: current_interval is skipped by serde and 0
InitStep ==
    /\ s_step0 \in StepInputs
    /\ s_step = s_step0
    /\ s_items = <<>>
    /\ s_done = FALSE
    /\ s_last = [op |-> "none"]
    /\ s_nskips = 0
    /\ EngineIdle

NextStep ==
    \/ StepAdvance
    \/ StepSkip

SpecStep == InitStep /\ [][NextStep]_vars

\* ------------------------------------------------ user input (4.9)
\* SpecInput: the stdin thread and the web-socket actor feed the router's
\* command channel; the router takes SkipStep and Abort off it.  A line is
\* a sequence of characters.

\* lines and text messages handled in one run
MaxInputs == 2

Whitespace == {" ", "\n"}

RECURSIVE trim_start(_)
trim_start(l) ==
    IF l # <<>> /\ Head(l) \in Whitespace THEN trim_start(Tail(l)) ELSE l

RECURSIVE trim_end(_)
trim_end(l) ==
    IF l # <<>> /\ l[Len(l)] \in Whitespace
    THEN trim_end(SubSeq(l, 1, Len(l) - 1))
    ELSE l

\* str::trim: leading and trailing whitespace removed
trim(l) == trim_end(trim_start(l))

\* a slip: the line is matched as typed
to_ascii_uppercase_asis(l) == l

\* str::to_ascii_uppercase
to_ascii_uppercase(l) ==
    IF l = <<>> THEN <<>>
    ELSE [i \in 1..Len(l) |->
            CASE l[i] = "s" -> "S"
              [] l[i] = "q" -> "Q"
              [] l[i] = "x" -> "X"
              [] OTHER -> l[i]]

\* what is typed between the padding
Typed ==
    { <<>>, <<"s">>, <<"S">>, <<"q">>, <<"Q">>, <<"x">>, <<"s", "q">>,
      <<"S", " ", "S">> }

\* text messages a web-socket client sends
Messages ==
    { pre \o mid \o post :
        pre \in {<<>>, <<" ">>}, mid \in Typed,
        post \in {<<>>, <<"\n">>, <<" ", "\n">>} }

\* lines read_line returns before end of file: never empty
Lines == Messages \ {<<>>}

\* Sender::blocking_send / Sender::send on the router's command channel:
\* an error once the receiver is dropped with the workout task
channel_send(q, c) ==
    IF Running THEN [ok |-> TRUE, q |-> Append(q, c)]
    ELSE [ok |-> FALSE, q |-> q]

\* handle_user_input: the match on the trimmed, upper-cased line
stdin_match(line) ==
    LET input == to_ascii_uppercase(trim(line)) IN
    CASE input = <<"S">> -> [cmd |-> "SkipStep", unwrap |-> TRUE, break |-> FALSE]
      [] input = <<"Q">> -> [cmd |-> "Abort", unwrap |-> FALSE, break |-> TRUE]
      [] OTHER -> [cmd |-> "none", unwrap |-> FALSE, break |-> FALSE]

\* WebSocketActor: the match on the trimmed, upper-cased text message
ws_match(data) ==
    LET input == to_ascii_uppercase(trim(data)) IN
    CASE input = <<"S">> -> [cmd |-> "SkipStep"]
      [] input = <<"Q">> -> [cmd |-> "SkipStep"]
      [] OTHER -> [cmd |-> "none"]

Handled(src, line, how, cmd, delivered, pc) ==
    [src |-> src, line |-> line, how |-> how, cmd |-> cmd,
     delivered |-> delivered, pc |-> pc]

inIdleVars == <<now, engineVars, rstate, nextTick, ncmds, emitted, routerExits,
                pubVars, obsVars, ctlVars, ctor, stepVars, drvVars>>

\* main: handle_user_input spawns the stdin thread
InputSpawn ==
    /\ in_pc = "idle"
    /\ in_pc' = "reading"
    /\ UNCHANGED <<inIdleVars, cmds, in_eof, in_count, in_last>>

\* one turn of the loop on a line, with what the match arm does
StdinTurn(line, how) ==
    LET m == stdin_match(line)
        r == IF m.cmd = "none" THEN [ok |-> FALSE, q |-> cmds]
             ELSE channel_send(cmds, m.cmd)
        pc == IF m.unwrap /\ ~r.ok THEN "panicked"
              ELSE IF m.break THEN "stopped" ELSE "reading"
    IN /\ cmds' = r.q
       /\ in_pc' = pc
       /\ in_last' = Handled("stdin", line, how, m.cmd, r.ok, pc)
       /\ in_count' = in_count + 1

\* handle_user_input: read_line returns a line
StdinLine(line) ==
    /\ in_pc = "reading"
    /\ ~in_eof
    /\ in_count < MaxInputs
    /\ StdinTurn(line, "line")
    /\ UNCHANGED <<inIdleVars, in_eof>>

\* the terminal or pipe behind stdin is closed
StdinCloses ==
    /\ ~in_eof
    /\ in_eof' = TRUE
    /\ UNCHANGED <<inIdleVars, cmds, in_pc, in_count, in_last>>

\* handle_user_input: read_line at end of file returns Ok(0) and leaves the
\* buffer empty
StdinAtEof ==
    /\ in_pc = "reading"
    /\ in_eof
    /\ in_count < MaxInputs
    /\ StdinTurn(<<>>, "eof")
    /\ UNCHANGED <<inIdleVars, in_eof>>

\* handle_user_input: read_line returns Err: Abort is sent, unwrapped, and
\* the loop is left
StdinError ==
    /\ in_pc = "reading"
    /\ in_count < MaxInputs
    /\ LET r == channel_send(cmds, "Abort")
           pc == IF r.ok THEN "stopped" ELSE "panicked"
       IN /\ cmds' = r.q
          /\ in_pc' = pc
          /\ in_last' = Handled("stdin", <<>>, "err", "Abort", r.ok, pc)
    /\ in_count' = in_count + 1
    /\ UNCHANGED <<inIdleVars, in_eof>>

\* WebSocketActor::handle on a text message; the send runs in a future
\* spawned on the actor
WsText(data) ==
    /\ in_count < MaxInputs
    /\ LET m == ws_match(data)
           r == IF m.cmd = "none" THEN [ok |-> FALSE, q |-> cmds]
                ELSE channel_send(cmds, m.cmd)
       IN /\ cmds' = r.q
          /\ in_last' = Handled("ws", data, "text", m.cmd, r.ok, in_pc)
    /\ in_count' = in_count + 1
    /\ UNCHANGED <<inIdleVars, in_pc, in_eof>>

\* the router is running a workout when the input arrives
InitInput == Init /\ Len(workout) = 1

NextInput ==
    \/ InputSpawn
    \/ \E line \in Lines : StdinLine(line)
    \/ StdinCloses
    \/ StdinAtEof
    \/ StdinError
    \/ \E data \in Messages : WsText(data)
    \/ CmdSkipStep
    \/ CmdAbort

SpecInput == InitInput /\ [][NextInput]_vars

\* ======================================================= claims, on Spec
\* the items a step hands out, in closed form
StepItems(s) ==
    CASE s.kind \in {"Warmup", "Ramp"} ->
            [k \in 1..s.duration |->
                PowerDuration(from_secs(1),
                    s.power_low + (k - 1) * ((s.power_high - s.power_low) \div s.duration))]
      [] s.kind = "Cooldown" ->
            [k \in 1..s.duration |->
                PowerDuration(from_secs(1),
                    s.power_low - (k - 1) * ((s.power_low - s.power_high) \div s.duration))]
      [] s.kind = "SteadyState" ->
            IF s.duration > 0
            THEN <<PowerDuration(from_secs(s.duration), s.power)>> ELSE <<>>
      [] s.kind = "FreeRide" ->
            IF s.duration > 0
            THEN <<PowerDuration(from_secs(s.duration), 0)>> ELSE <<>>
      [] s.kind = "IntervalsT" ->
            [k \in 1..(2 * s.repeat) |->
                IF k % 2 = 1
                THEN PowerDuration(from_secs(s.on_duration), s.on_power)
                ELSE PowerDuration(from_secs(s.off_duration), s.off_power)]

\* the (step number, item) pairs of a whole workout, in workout order
RECURSIVE WorkoutItems(_, _)
WorkoutItems(steps, n) ==
    IF steps = <<>> THEN <<>>
    ELSE [k \in 1..Len(StepItems(Head(steps))) |->
             [step |-> n, item |-> StepItems(Head(steps))[k]]]
         \o WorkoutItems(Tail(steps), n + 1)

EmittedItems == [k \in 1..Len(emitted) |->
                    [step |-> emitted[k].step, item |-> emitted[k].item]]

EmittedOfStep(n) == Cardinality({k \in 1..Len(emitted) : emitted[k].step = n})

\* the item count the specification gives per step
ClaimedItemCount(s) ==
    CASE s.kind \in {"Warmup", "Ramp", "Cooldown"} -> s.duration
      [] s.kind \in {"SteadyState", "FreeRide"} -> 1
      [] s.kind = "IntervalsT" -> 2 * s.repeat

CompleteRunNoSkip == ended = "exhausted" /\ ~everSkipped

\* C1: absent pause and skip, the first setpoint is emitted at once and
\* setpoint n+1 is emitted only after the timer armed with setpoint n's
\* duration has fired
C1_EmitAfterTimerFired ==
    (~everPaused /\ ~everSkipped) =>
        /\ (emitted # <<>> => emitted[1].at = 0)
        /\ \A i \in 1..(Len(emitted) - 1) :
              emitted[i + 1].at >= emitted[i].at + emitted[i].item.duration

\* C2 (as stated): over a complete run with no skip each step contributes
\* duration_s (Warmup/Ramp/Cooldown), 1 (SteadyState/FreeRide) or
\* 2*repeat (IntervalsT) emissions
C2_ClaimedCounts ==
    CompleteRunNoSkip =>
        \A n \in 1..Len(workout) : EmittedOfStep(n) = ClaimedItemCount(workout[n])

\* C2 (amended): over a complete run with no skip the engine emits, in
\* workout order, exactly the items of each step, where a SteadyState or
\* FreeRide of duration 0 contributes no item, and then returns none
C2_EmitsExactlyTheItems ==
    CompleteRunNoSkip => EmittedItems = WorkoutItems(workout, 1)

C2_Witness ==
    /\ CompleteRunNoSkip
    /\ Len(workout) >= 2
    /\ Len(emitted) >= 5
    /\ \E n \in 1..Len(workout) : workout[n].kind = "IntervalsT"

\* C3: after pause() no setpoint is emitted until skip_step() or resume
C3_NoEmissionWhilePaused ==
    \A i \in 1..Len(emitted) : ~emitted[i].whilePaused

\* C4: the setpoint emitted after skip_step() is emitted without waiting;
\* it is the first one of the following step when the skipped step is not
\* an IntervalsT (or is an exhausted one), the next half-interval otherwise;
\* when the stream ends after a skip the skipped step was the last one
C4_SkipGoesToNext ==
    /\ \A i \in 1..Len(emitted) :
          LET e == emitted[i] IN
          e.afterSkip.some =>
             LET k == e.afterSkip.v IN
             /\ e.at = k.at
             /\ IF k.kind # "IntervalsT" \/ k.exhausted
                THEN e.step = k.step + 1 /\ e.fresh
                ELSE /\ e.step = k.step
                     /\ e.item = StepItems(workout[k.step])[k.current_interval + 1]
    /\ (ended = "exhausted" /\ lastSkip.some) =>
          /\ lastSkip.v.step = Len(workout)
          /\ lastSkip.v.kind # "IntervalsT" \/ lastSkip.v.exhausted
          /\ now = lastSkip.v.at

C4_Witness ==
    \E i \in 1..Len(emitted) :
        /\ emitted[i].afterSkip.some
        /\ emitted[i].afterSkip.v.kind = "SteadyState"
        /\ emitted[i].afterSkip.v.remaining > 0
        /\ emitted[i].step = 2

\* C5: skip_step() lowers total_workout_duration by exactly the time really
\* left of the skipped step (of the current half-interval on IntervalsT)
C5_SkipSubtractsRemaining ==
    lastSkip.some =>
        lastSkip.v.total_before - lastSkip.v.total_after = lastSkip.v.remaining

\* C8: when the engine returns none or Abort is received, the router has
\* sent Exit exactly once, the state sender is gone from the shared state,
\* the state channel is closed and the task has terminated
C8_RouterLeavesCleanly ==
    /\ ended \in {"exhausted", "abort"} =>
          /\ rstate = "done"
          /\ routerExits = 1
          /\ ~state_tx_app
          /\ Closed
    /\ ended = "no" => routerExits = 0 /\ rstate # "done"

C8_Witness ==
    /\ ended = "abort"
    /\ \E i \in SubIds : subs[i] = "eos"


\* ==================================================== claims, on SpecCtl
IsPrefix(a, b) == Len(a) <= Len(b) /\ \A k \in 1..Len(a) : a[k] = b[k]

\* C6: the control task writes a SetTargetPower frame to the control point
\* only when no earlier write is still awaiting its indication
C6_OneWriteOutstanding ==
    \A i \in 1..Len(writes) :
        (writes[i].by = "ctl" /\ writes[i].frame[1] = OpSetTargetPower)
            => writes[i].outstanding = 0

\* C7: the control task receives every SetTargetPower sent on the command
\* bus, once and in the order sent
C7_AllReceivedInOrder == IsPrefix(received, sent)

\* C9: after SIGINT the control task's exit leaves the trainer
\* disconnected, the workout task stopped and the state channel closed
C9_SigintShutsDown ==
    (sigint /\ ctl_pc = "done") =>
        /\ disconnected
        /\ rstate \in {"done", "aborted"}
        /\ Closed

\* C10: set_power hands a SetTargetPower frame to the control point exactly
\* when min <= power <= max, the bounds included; outside the range it
\* fails and hands over no bytes
C10_SetPowerChecksRange ==
    /\ \A i \in 1..Len(set_power_log) :
          LET e == set_power_log[i] IN
          IF power_range.min <= e.power /\ e.power <= power_range.max
          THEN /\ e.result = "Ok"
               /\ e.frame.some
               /\ e.frame.v[1] = OpSetTargetPower
               /\ read_i16(SubSeq(e.frame.v, 2, 3)) = e.power
          ELSE e.result = "Err" /\ ~e.frame.some /\ ~e.written
    /\ \A i \in 1..Len(writes) :
          writes[i].frame[1] = OpSetTargetPower =>
              LET w == read_i16(SubSeq(writes[i].frame, 2, 3)) IN
              power_range.min <= w /\ w <= power_range.max

\* a setpoint equal to max was written and one above max was refused
C10_Witness ==
    /\ \E i \in 1..Len(set_power_log) :
          set_power_log[i].power = power_range.max /\ set_power_log[i].written
    /\ \E i \in 1..Len(set_power_log) :
          set_power_log[i].power > power_range.max /\ set_power_log[i].result = "Err"

\* ======================================================= claims, on Spec
\* C11: once the engine is constructed, no sequence of next, pause, resume,
\* skip_step and tick makes the engine or the router task fail
C11_NeverFails == rstate # "panicked"

\* ================================================== claims, on SpecEngine
\* C12: constructing the engine from a workout with no steps returns an
\* error to the caller; no engine and no workout task is created
C12_EmptyWorkoutIsErr ==
    (ctor.result # "none" /\ ctor.file.parsed /\ ctor.file.steps = <<>>) =>
        /\ ctor.result = "err"
        /\ rstate = "none"
        /\ current_step = NoneVal

\* a is a number of hundredths; r is a/100 rounded to the nearest integer,
\* halves away from zero
RoundsTo(a, r) ==
    IF a >= 0 THEN 100 * r - 50 <= a /\ a < 100 * r + 50
    ELSE 100 * r - 50 < a /\ a <= 100 * r + 50

\* C19: every SetTargetPower the engine emits carries
\* round(ftp_base * power_level) of the item just taken from the step,
\* saturated to the i16 range; with ftp_base = 0 every value is 0
C19_WattsRounded ==
    \A i \in 1..Len(emitted) :
        LET e == emitted[i]
            a == workout_state.ftp_base * e.item.power_level
        IN /\ CASE e.power = I16Max -> a >= 100 * I16Max - 50
                 [] e.power = I16Min -> a <= 100 * I16Min + 50
                 [] OTHER -> RoundsTo(a, e.power)
           /\ workout_state.ftp_base = 0 => e.power = 0
           /\ \E k \in DOMAIN StepItems(workout[e.step]) :
                 e.item = StepItems(workout[e.step])[k]
           /\ i = Len(emitted) => workout_state.current_power_set = e.power

C19_Witness ==
    /\ ctor.result = "ok"
    /\ workout_state.ftp_base = 40000
    /\ \E i \in 1..Len(emitted) : emitted[i].power = I16Max
    /\ \E i \in 1..Len(emitted) : emitted[i].power = 20000

\* the seconds the specification counts for a step
ClaimedStepSeconds(s) ==
    IF s.kind = "IntervalsT" THEN s.repeat * (s.on_duration + s.off_duration)
    ELSE s.duration

RECURSIVE ClaimedTotalSeconds(_)
ClaimedTotalSeconds(steps) ==
    IF steps = <<>> THEN 0
    ELSE ClaimedStepSeconds(Head(steps)) + ClaimedTotalSeconds(Tail(steps))

S4Workout == <<SteadyState(10, 50), IntervalsT(2, 60, 120, 100, 50)>>

\* C20: until a step is skipped, the snapshot's total_workout_duration is
\* the sum of the durations of all steps of the workout, the first
\* included, an IntervalsT counting repeat*(on_duration+off_duration)
C20_InitialTotal ==
    (ctor.result = "ok" /\ ~everSkipped) =>
        /\ workout_state.total_workout_duration
              = TickPeriod * ClaimedTotalSeconds(workout)
        /\ workout = S4Workout =>
              workout_state.total_workout_duration = TickPeriod * 370

C20_Witness ==
    /\ ctor.result = "ok"
    /\ workout = S4Workout
    /\ emitted = <<>>
    /\ workout_state.total_workout_duration = TickPeriod * 370

\* ==================================================== claims, on SpecStep
RECURSIVE SumItemDurations(_)
SumItemDurations(items) ==
    IF items = <<>> THEN 0
    ELSE Head(items).duration + SumItemDurations(Tail(items))

NextIsNone == ~advance(s_step).item.some

\* C13: with no skip, the durations of the items advance() hands out for a
\* step add up to the step duration counted in total_workout_duration
C13_DurationsAddUp ==
    (s_done /\ s_nskips = 0) =>
        SumItemDurations(s_items) = remaining_workout_duration(<<s_step0>>)

C13_Witness ==
    /\ s_done /\ s_nskips = 0
    /\ s_step0.kind = "IntervalsT"
    /\ Len(s_items) = 4

\* C14: with no skip, a Warmup, Ramp or Cooldown of d seconds hands out d
\* items of 1 s, the k-th (from 0) at power_low + k*(power_high-power_low)/d
C14_RampItems ==
    (s_step0.kind \in {"Warmup", "Ramp", "Cooldown"} /\ s_nskips = 0) =>
        LET d == s_step0.duration IN
        /\ Len(s_items) <= d
        /\ \A k \in 1..Len(s_items) :
              /\ s_items[k].duration = from_secs(1)
              /\ d * (s_items[k].power_level - s_step0.power_low)
                    = (k - 1) * (s_step0.power_high - s_step0.power_low)
        /\ s_done => Len(s_items) = d
        /\ Len(s_items) = d => NextIsNone

C14_Witness ==
    /\ s_step0 = Cooldown(3, 120, 0)
    /\ s_nskips = 0
    /\ s_done
    /\ Len(s_items) = 3

\* C15 as claimed: SteadyState and FreeRide hand out exactly one item of
\* duration_s seconds and then none, whatever duration_s is
C15_OneItemAlways ==
    (s_step0.kind \in {"SteadyState", "FreeRide"} /\ s_nskips = 0 /\ s_done) =>
        /\ Len(s_items) = 1
        /\ s_items[1] = PowerDuration(from_secs(s_step0.duration),
                IF s_step0.kind = "SteadyState" THEN s_step0.power ELSE 0)

\* C15 as the code has it: one item of duration_s seconds when
\* duration_s > 0, no item when duration_s = 0
C15_OneItemIfPositive ==
    (s_step0.kind \in {"SteadyState", "FreeRide"} /\ s_nskips = 0) =>
        /\ Len(s_items) <= 1
        /\ s_items # <<>> => NextIsNone
        /\ s_done =>
            IF s_step0.duration > 0
            THEN s_items = <<PowerDuration(from_secs(s_step0.duration),
                    IF s_step0.kind = "SteadyState" THEN s_step0.power ELSE 0)>>
            ELSE s_items = <<>>

C15_Witness ==
    /\ s_step0 = SteadyState(3, 60)
    /\ s_nskips = 0
    /\ s_done
    /\ Len(s_items) = 1

\* C16: an IntervalsT hands out 2*repeat items, work and rest in turn and
\* work first, then none; current_interval is the number of items handed
\* out and is even exactly when the next item is work
WorkItem(s) == PowerDuration(from_secs(s.on_duration), s.on_power)
RestItem(s) == PowerDuration(from_secs(s.off_duration), s.off_power)

C16_IntervalsAlternate ==
    s_step0.kind = "IntervalsT" =>
        LET n == 2 * s_step0.repeat IN
        /\ Len(s_items) <= n
        /\ s_step.current_interval = Len(s_items)
        /\ \A k \in 1..Len(s_items) :
              s_items[k] = IF k % 2 = 1 THEN WorkItem(s_step0) ELSE RestItem(s_step0)
        /\ s_done => Len(s_items) = n
        /\ Len(s_items) = n => NextIsNone
        /\ Len(s_items) < n =>
              advance(s_step).item =
                  Some(IF s_step.current_interval % 2 = 0
                       THEN WorkItem(s_step0) ELSE RestItem(s_step0))

C16_Witness ==
    /\ s_step0.kind = "IntervalsT"
    /\ s_step0.repeat = 2
    /\ s_done
    /\ Len(s_items) = 4

\* C17: once advance() has returned None for a step, every later advance()
\* on it returns None, with or without skip() calls in between
C17_ExhaustedStays ==
    /\ s_done => NextIsNone
    /\ (s_last.op = "advance" /\ s_last.done) => ~s_last.item.some

C17_Witness ==
    /\ s_last.op = "advance"
    /\ s_last.done
    /\ s_last.prev = "skip"
    /\ s_step0.kind = "SteadyState"
    /\ Len(s_items) = 1

\* C18: after skip() on a Warmup, Ramp, Cooldown, SteadyState or FreeRide
\* the next advance() returns None; skip() leaves an IntervalsT as it was,
\* and the advance() after it hands out the half-interval that was due
C18_SkipEffect ==
    /\ s_last.op = "skip" =>
          IF s_step0.kind = "IntervalsT"
          THEN s_step = s_last.before
          ELSE NextIsNone
    /\ (s_last.op = "advance" /\ s_last.prev = "skip") =>
          IF s_step0.kind = "IntervalsT"
          THEN (s_last.before.current_interval < 2 * s_step0.repeat) => s_last.item.some
          ELSE ~s_last.item.some

C18_Witness ==
    /\ s_last.op = "advance"
    /\ s_last.prev = "skip"
    /\ s_step0.kind = "IntervalsT"
    /\ s_last.item.some
    /\ Len(s_items) = 2

\* ------------------------------------------------ claims on the snapshots
\* The snapshot broadcast by a tick is workout_state as update_ts() leaves
\* it; between two ticks the record is carried over by the other branches.

\* C21: across the successive snapshots the router broadcasts,
\* workout_elapsed and current_step_number never decrease
C21_SnapshotsMonotonic ==
    [][/\ workout_state'.workout_elapsed >= workout_state.workout_elapsed
       /\ workout_state'.current_step_number >= workout_state.current_step_number]_vars

\* ticks have broadcast a later snapshot of a later step
C21_Witness ==
    /\ workout_state.workout_elapsed >= 2 * TickPeriod
    /\ workout_state.current_step_number > 1
    /\ workout_state.current_step.started > workout_state.workout_started

\* C22: total_workout_duration never increases after construction; only
\* skip_step() changes it, only downwards, and never below zero
C22_TotalOnlyLoweredBySkip ==
    [][/\ workout_state'.total_workout_duration <= workout_state.total_workout_duration
       /\ workout_state'.total_workout_duration >= 0
       /\ workout_state'.total_workout_duration # workout_state.total_workout_duration
            => /\ cmds # <<>> /\ Head(cmds) = "SkipStep" /\ cmds' = Tail(cmds)
               /\ lastSkip' # lastSkip /\ lastSkip'.some]_vars

\* a skip_step() has lowered the total
C22_Witness ==
    /\ lastSkip.some
    /\ lastSkip.v.total_after < lastSkip.v.total_before
    /\ workout_state.total_workout_duration = lastSkip.v.total_after

\* ------------------------------------------------ claims on the endpoints
\* C23: GET /workout_state and /ws answer 400 exactly when the state sender
\* is absent, which is when the engine has terminated; a stream opened
\* while it is present either still has a running engine behind it or
\* ends, and is never left open for ever
C23_EndpointsFollowEngine ==
    /\ state_tx_app <=> Running
    /\ \A i \in SubIds :
          /\ subs[i] = "rejected" => ~Running
          /\ subs[i] = "open" => Running \/ Closed

\* ------------------------------------------------ claims on user input
\* the line holds exactly one letter of the set, and whitespace around it
IsLetter(line, letters) ==
    \E i \in 1..Len(line) :
        /\ line[i] \in letters
        /\ \A j \in 1..Len(line) : j # i => line[j] \in Whitespace

\* C24: a stdin line that is S after trimming and upper-casing sends
\* SkipStep to the router, one that is Q sends Abort, and any other line
\* sends nothing and the reader goes on to read the next line
C24_StdinLetters ==
    in_last.src = "stdin" /\ in_last.how = "line" =>
        /\ IsLetter(in_last.line, {"s", "S"}) =>
              in_last.cmd = "SkipStep" /\ in_last.delivered
        /\ IsLetter(in_last.line, {"q", "Q"}) =>
              in_last.cmd = "Abort" /\ in_last.delivered
        /\ ~IsLetter(in_last.line, {"s", "S", "q", "Q"}) =>
              /\ in_last.cmd = "none" /\ ~in_last.delivered
              /\ in_last.pc = "reading"

\* a padded lower-case s has put SkipStep on the router's channel
C24_Witness ==
    /\ in_last.src = "stdin" /\ in_last.how = "line"
    /\ in_last.line = <<" ", "s", "\n">>
    /\ in_last.cmd = "SkipStep" /\ in_last.delivered
    /\ cmds # <<>> /\ cmds[Len(cmds)] = "SkipStep"

\* C25: when stdin reaches end of file, Abort is sent to the router and the
\* input reader stops
C25_EofAborts ==
    in_last.src = "stdin" /\ in_last.how = "eof" =>
        /\ in_last.cmd = "Abort"
        /\ in_last.pc = "stopped"

\* C26: a web-socket text message Q sends Abort to the router and S sends
\* SkipStep, as the stdin letters do
C26_WsLetters ==
    in_last.src = "ws" =>
        /\ IsLetter(in_last.line, {"q", "Q"}) => in_last.cmd = "Abort"
        /\ IsLetter(in_last.line, {"s", "S"}) => in_last.cmd = "SkipStep"

\* ------------------------------------------------ claims on the control task
\* C27: each indication the control task consumes after a control-point
\* write answers that same write: its request opcode is the opcode just
\* written, also for the first write after construction
C27_IndicationMatchesWrite ==
    cp_wait.some /\ cp_wait.v.got.some =>
        cp_wait.v.got.v.request_op_code = cp_wait.v.op

\* Exit was sent on the command bus: by the router or on SIGINT
ExitSent == routerExits > 0 \/ sigint

\* the control task can take no further step: it has panicked, or it waits
\* for an indication and none is on its way
CtlStuck ==
    \/ ctl_pc = "panicked"
    \/ ctl_pc = "await" /\ cp_q = <<>> /\ (periph_q = <<>> \/ pump = "exited")

\* C28: with a peripheral that answers every accepted write, once Exit is
\* sent the control task is never in a state from which it cannot go on to
\* leave its loop and disconnect
C28_ExitEndsControlTask ==
    ExitSent /\ pump = "running" => ~CtlStuck

\* C29: once the notification stream has ended and the pump has exited, the
\* control task is not left waiting for a control-point indication
C29_DisconnectShutsDown ==
    pump = "exited" => ~(ctl_pc = "await" /\ cp_q = <<>>)

\* C30: after a SetTargetPower whose BLE write failed the control task
\* does not wait for an indication for that write
C30_FailedWriteNotAwaited ==
    /\ cp_wait.some
    /\ cp_wait.v.op = OpSetTargetPower
    /\ ~cp_wait.v.written
    /\ ~cp_wait.v.got.some
    => ctl_pc # "await"

\* ------------------------------------------------ claims on step transitions
\* C34: when the engine moves to the following step S, the snapshot gets
\* current_step = S, current_step_number one higher, the step's elapsed
\* time 0, next_step the step after S in the workout (none when S is the
\* last), and no interval info when S is not an IntervalsT
C34_NextStepSnapshot ==
    [][Len(workouts') < Len(workouts) =>
        LET n == workout_state.current_step_number + 1
            st == workout_state'
        IN /\ st.current_step_number = n
           /\ st.current_step.step = workout[n]
           /\ st.current_step.elapsed = 0
           /\ st.current_step.started = now
           /\ st.current_step.duration = get_step_duration(workout[n])
           /\ st.next_step = IF n < Len(workout) THEN Some(workout[n + 1]) ELSE NoneVal
           /\ workout[n].kind # "IntervalsT" => st.current_interval = NoneVal]_vars

\* the engine has entered the second of three steps after an IntervalsT-free start
C34_Witness ==
    /\ Len(workout) = 3
    /\ workout_state.current_step_number = 2
    /\ workout_state.current_step.step = workout[2]
    /\ workout_state.next_step = Some(workout[3])
    /\ workout_state.current_step.started > 0
    /\ workout_state.current_step.elapsed = 0

\* C36: 1 <= current_step_number <= total_steps, and current_step_number is
\* total_steps minus the number of steps still queued
C36_StepNumberCountsQueue ==
    /\ 1 <= workout_state.current_step_number
    /\ workout_state.current_step_number <= workout_state.total_steps
    /\ workout_state.total_steps = Len(workout)
    /\ workout_state.current_step_number = workout_state.total_steps - Len(workouts)

\* the last of several steps has been entered: the queue is empty
C36_Witness ==
    /\ workout_state.total_steps = 3
    /\ workout_state.current_step_number = 3
    /\ workouts = <<>>
    /\ emitted # <<>> /\ emitted[Len(emitted)].step = 3

\* the snapshot a tick would broadcast in this state
Snapshot == update_ts(workout_state, now)

\* the router is at its select! with the broadcast interval due
BroadcastDue == rstate \in {"poll", "polled"} /\ TickDue

\* the interval info matches the k-th half-interval of the IntervalsT s
DescribesHalf(info, s, k) ==
    /\ info.is_work_interval = (k % 2 = 1)
    /\ info.duration = from_secs(IF k % 2 = 1 THEN s.on_duration ELSE s.off_duration)
    /\ info.repetition = (k + 1) \div 2

\* C35: in every snapshot the router broadcasts, the interval info is there
\* exactly when the current step is an IntervalsT, and it describes the
\* half-interval in force: work or rest, its duration, and the 1-based
\* number of the work/rest pair
C35_IntervalInfoInSnapshots ==
    BroadcastDue =>
        LET s == Snapshot.current_step.step
            k == EmittedOfStep(Snapshot.current_step_number)
        IN /\ Snapshot.current_interval.some <=> s.kind = "IntervalsT"
           /\ Snapshot.current_interval.some =>
                 DescribesHalf(Snapshot.current_interval.v, s, k)

\* the same, once the first setpoint of the workout has been emitted
C35_AfterFirstSetpoint == emitted # <<>> => C35_IntervalInfoInSnapshots

\* C37: a SetTargetPower the driver rejects as out of range does not end
\* the control task: it stays in its loop, able to take the later commands
\* and to disconnect on Exit
C37_RejectedSetpointSurvives ==
    /\ set_power_log # <<>>
    /\ set_power_log[Len(set_power_log)].result = "Err"
    => /\ ctl_pc \in {"recv", "await", "done"}
       /\ ctl_pc # "done" => bus_sub

\* ============================================ SpecPump (4.8, 4.9, 4.10)
\* IndoorBikeFitnessMachine::new from subscribe_to_characteristics on, and
\* the notification pump on the bytes the peripheral sends.
\* ------------------------------------------------------ bounds, inputs
\* notifications the pump takes off its stream over a run
MaxNotifs == 2

BIKE_DATA_FLAGS_LEN == 13

\* BikeDataFlags the parser has an arm with a read for
SupportedBits == {1, 2, 3, 4, 5, 6, 7, 11, 12}

\* BikeDataFlags whose arm is unimplemented!()
UnimplementedBits == {8, 9, 10}

\* BikeData
BikeFields == {"inst_speed", "avg_speed", "inst_cadence", "avg_cadence",
               "tot_distance", "resistance_lvl", "inst_power", "avg_power",
               "elapsed_time", "remaining_time"}

\* MachineStatusOpCode
MachineStatusOpCodes == (0..20) \cup {255}

\* ControlPointOpCode
ControlPointOpCodes == {0, 1, 4, 5, 7, 8, 17, 18, 19}

\* ControlPointResult
ControlPointResultName(c) ==
    CASE c = 0 -> "Reserved0"
      [] c = 1 -> "Success"
      [] c = 2 -> "OpCodeNotSupported"
      [] c = 3 -> "InvalidParam"
      [] c = 4 -> "OperationFailed"
      [] c = 5 -> "ControlNotPermitted"

ControlPointResults == 0..5

RECURSIVE Pow(_, _)
Pow(b, n) == IF n = 0 THEN 1 ELSE b * Pow(b, n - 1)

RECURSIVE SumOver(_, _)
SumOver(S, f) ==
    IF S = {} THEN 0
    ELSE LET x == CHOOSE y \in S : TRUE IN f[x] + SumOver(S \ {x}, f)

\* ------------------------------------------------------ byte readers
\* LittleEndian::read_u16(&raw[c..]): the caller has checked c + 2 <= len
read_u16(raw, c) == raw[c + 1] + 256 * raw[c + 2]

\* LittleEndian::read_u24(&raw[c..])
read_u24(raw, c) == raw[c + 1] + 256 * raw[c + 2] + 65536 * raw[c + 3]

\* ScalarType::new().with_multiplier(m).with_dec_exp(d).to_scalar(raw):
\* raw * m * 10^d, kept as an exact fraction
to_scalar(m, d, raw) ==
    IF d >= 0 THEN [num |-> raw * m * Pow(10, d), den |-> 1]
    ELSE [num |-> raw * m, den |-> Pow(10, 0 - d)]

\* ------------------------------------------------- indoor bike data
\* the bytes the read of each arm takes from the cursor on: read_u16 and
\* read_i16 two, read_u24 three, raw_data[cursor] one
ReadWidth(i) ==
    CASE i \in {1, 2, 3, 6, 7, 11, 12} -> 2
      [] i = 4 -> 3
      [] i = 5 -> 1

\* a slip in the parser: total distance advances the cursor like the
\* two-byte fields
FieldSize_all2(i) == 2

\* the bytes each arm of handle_bike_data_notification advances the cursor by
FieldSize(i) ==
    CASE i \in {1, 2, 3} -> 2
      [] i = 4 -> 3
      [] i = 5 -> 1
      [] i \in {6, 7, 11, 12} -> 2

\* the BikeData field each arm assigns
FieldName(i) ==
    CASE i = 1 -> "avg_speed"
      [] i = 2 -> "inst_cadence"
      [] i = 3 -> "avg_cadence"
      [] i = 4 -> "tot_distance"
      [] i = 5 -> "resistance_lvl"
      [] i = 6 -> "inst_power"
      [] i = 7 -> "avg_power"
      [] i = 11 -> "elapsed_time"
      [] i = 12 -> "remaining_time"

\* the value each arm assigns, read at the cursor
FieldValue(i, raw, c) ==
    CASE i = 1 -> to_scalar(1, -2, read_u16(raw, c))
      [] i \in {2, 3} -> to_scalar(1, -1, read_u16(raw, c))
      [] i = 4 -> read_u24(raw, c)
      [] i = 5 -> to_scalar(1, 1, raw[c + 1])
      [] i \in {6, 7} -> read_i16(SubSeq(raw, c + 1, c + 2))
      [] i \in {11, 12} -> read_u16(raw, c)

\* flags & (1 << i) != 0
FlagSet(flags, i) == (flags \div Pow(2, i)) % 2 = 1

\* BikeData::default()
BikeDataDefault == [f \in BikeFields |-> NoneVal]

Panicked(why) == [panic |-> TRUE, why |-> why]

\* handle_bike_data_notification, the loop over bits i..12; a read past the
\* end of the slice panics
RECURSIVE parse_fields(_, _, _, _, _)
parse_fields(raw, flags, i, cursor, data) ==
    IF i >= BIKE_DATA_FLAGS_LEN
    THEN [panic |-> FALSE, data |-> data, cursor |-> cursor]
    ELSE IF ~FlagSet(flags, i)
    THEN parse_fields(raw, flags, i + 1, cursor, data)
    ELSE IF i \in UnimplementedBits
    THEN Panicked("unimplemented")
    ELSE IF Len(raw) < cursor + ReadWidth(i)
    THEN Panicked("out of range")
    ELSE parse_fields(raw, flags, i + 1, cursor + FieldSize(i),
                      [data EXCEPT ![FieldName(i)] = Some(FieldValue(i, raw, cursor))])

\* handle_bike_data_notification
handle_bike_data_notification(raw) ==
    IF Len(raw) < 2 THEN Panicked("out of range")
    ELSE LET flags == read_u16(raw, 0) IN
         IF flags % 2 = 1 THEN Panicked("unimplemented")
         ELSE IF Len(raw) < 4 THEN Panicked("out of range")
         ELSE parse_fields(raw, flags, 1, 4,
                  [BikeDataDefault EXCEPT
                      !["inst_speed"] = Some(to_scalar(1, -2, read_u16(raw, 2)))])

\* ------------------------------------------ control point, machine status
\* handle_control_point_notification
handle_control_point_notification(raw) ==
    IF Len(raw) < 1 THEN Panicked("out of range")
    ELSE IF raw[1] # 128 THEN Panicked("assert_eq")
    ELSE IF Len(raw) < 2 THEN Panicked("out of range")
    ELSE IF raw[2] \notin ControlPointOpCodes THEN Panicked("unwrap")
    ELSE IF Len(raw) < 3 THEN Panicked("out of range")
    ELSE IF raw[3] \notin ControlPointResults THEN Panicked("unwrap")
    ELSE [panic |-> FALSE,
          data |-> [request_op_code |-> raw[2],
                    request_status |-> ControlPointResultName(raw[3])]]

\* handle_machine_status_notification
handle_machine_status_notification(raw) ==
    IF Len(raw) < 1 THEN Panicked("out of range")
    ELSE IF raw[1] \notin MachineStatusOpCodes THEN Panicked("unwrap")
    ELSE [panic |-> FALSE, data |-> raw[1]]

\* a slip in the pump: the result of send is unwrapped
send_unwrap(receivers) == IF receivers > 0 THEN "sent" ELSE "panic"

\* let _ = tx.send(..): Err(SendError) without a receiver, thrown away
send(receivers) == IF receivers > 0 THEN "sent" ELSE "no_receiver"

\* receivers of the broadcast a notification of this characteristic goes to
Receivers(uuid) ==
    CASE uuid = "INDOOR_BIKE_DATA" -> IF bike_sub THEN 1 ELSE 0
      [] uuid = "CONTROL_POINT" -> IF cp_sub THEN 1 ELSE 0
      [] OTHER -> 0

\* handle_notifications, one turn of the loop on notification n
Handle(n) ==
    CASE n.uuid = "MACHINE_STATUS" ->
            LET r == handle_machine_status_notification(n.value) IN
            IF r.panic THEN [outcome |-> "panic", decoded |-> r]
            ELSE [outcome |-> "decoded", decoded |-> r]
      [] n.uuid = "INDOOR_BIKE_DATA" ->
            LET r == handle_bike_data_notification(n.value) IN
            IF r.panic THEN [outcome |-> "panic", decoded |-> r]
            ELSE [outcome |-> send(Receivers(n.uuid)), decoded |-> r]
      [] n.uuid = "TRAINING_STATUS" ->
            [outcome |-> "traced", decoded |-> NoneVal]
      [] n.uuid = "CONTROL_POINT" ->
            LET r == handle_control_point_notification(n.value) IN
            IF r.panic THEN [outcome |-> "panic", decoded |-> r]
            ELSE [outcome |-> send(Receivers(n.uuid)), decoded |-> r]
      [] OTHER -> [outcome |-> "warned", decoded |-> NoneVal]

\* ------------------------------------------------------------ inputs
\* the k-th byte of a packet body: no two neighbours alike, some above 127
BodyByte(k) == (37 * k + 11) % 256

FlagsOf(F) == SumOver(F, [i \in 0..15 |-> Pow(2, i)])

\* a notification value with flag bits F and a body of len bytes after
\* the flags
BikePacket(F, len) ==
    <<FlagsOf(F) % 256, FlagsOf(F) \div 256>> \o [k \in 1..len |-> BodyByte(k)]

\* the bytes a packet with the bits F carries after the flags
BodyLen(F) == 2 + SumOver(F \cap SupportedBits, [i \in 0..15 |-> IF i \in SupportedBits THEN ReadWidth(i) ELSE 0])

\* packets that do not decode, carry a bit the loop never looks at, carry
\* bytes to spare, or end before their last field
OddBikeValues ==
    {BikePacket({0}, 2), BikePacket({0, 6}, 4), BikePacket({8}, 4),
     BikePacket({2, 9}, 6), BikePacket({10, 11}, 6),
     BikePacket({13}, 2), BikePacket({4, 6}, 8),
     BikePacket({4, 6}, 4), BikePacket({}, 1), <<0>>, <<>>}

\* every combination of the fields the parser reads, and the odd packets
BikeValues ==
    {BikePacket(F, BodyLen(F)) : F \in SUBSET SupportedBits} \cup OddBikeValues

\* the packets the pump is run on
PumpBikeValues ==
    {BikePacket(F, BodyLen(F)) : F \in {{}, {2, 6}, SupportedBits}}
    \cup OddBikeValues

ControlPointValues ==
    {<<128, 0, 1>>, <<128, 5, 1>>, <<128, 5, 3>>, <<128, 1, 5>>,
     <<128, 5, 1, 0>>, <<0, 5, 1>>, <<129, 0, 1>>, <<128, 2, 1>>,
     <<128, 5, 6>>, <<128, 5>>, <<128>>, <<>>}

MachineStatusValues == {<<1>>, <<8, 100, 0>>, <<255>>, <<21>>, <<128>>, <<>>}

Notifications ==
    {[uuid |-> "INDOOR_BIKE_DATA", value |-> v] : v \in PumpBikeValues}
    \cup {[uuid |-> "CONTROL_POINT", value |-> v] : v \in ControlPointValues}
    \cup {[uuid |-> "MACHINE_STATUS", value |-> v] : v \in MachineStatusValues}
    \cup {[uuid |-> "TRAINING_STATUS", value |-> <<1, 0>>],
          [uuid |-> "OTHER", value |-> <<7>>]}

\* what a read of a supported-range characteristic returns: the six bytes
\* of min 0, max 300, step 1, cut short or with bytes to spare
RangeBytes == <<0, 0, 44, 1, 1, 0, 9>>

RangePayloads == {SubSeq(RangeBytes, 1, k) : k \in 0..7}

\* ------------------------------------------------- supported ranges
\* get_power_range on the bytes read
get_power_range(raw) ==
    IF Len(raw) # 6 THEN [result |-> "Err"]
    ELSE [result |-> "Ok",
          range |-> [min |-> read_i16(SubSeq(raw, 1, 2)),
                     max |-> read_i16(SubSeq(raw, 3, 4)),
                     step |-> read_u16(raw, 4)]]

\* get_resistance_range on the bytes read: the three slices are taken
\* before the length is looked at
get_resistance_range(raw) ==
    IF Len(raw) < 6 THEN [result |-> "Panic"]
    ELSE IF Len(raw) # 6 THEN [result |-> "Err"]
    ELSE [result |-> "Ok",
          range |-> [min |-> to_scalar(1, 1, read_i16(SubSeq(raw, 1, 2))),
                     max |-> to_scalar(1, 1, read_i16(SubSeq(raw, 3, 4))),
                     step |-> to_scalar(1, 1, read_i16(SubSeq(raw, 5, 6)))]]

\* ------------------------------------------------------------ actions
pumpRest == <<specOnlyVars, rstate, routerExits, pubVars, ended, bus_q, sent,
              received, periph_q, set_power_log, cp_wait, sigint, disconnected,
              ctor, inVars, stepVars, scanVars, bcVars>>

\* IndoorBikeFitnessMachine::new after subscribe_to_characteristics, and
\* main up to subscribe_for_indoor_bike_notifications: the resistance range
\* is read, then the power range, then RequestControl is written; an Err
\* leaves main through `?`, a panic unwinds it
ConnectToFit(res_raw, pow_raw) ==
    /\ fit_ctor.result = "none"
    /\ LET res == get_resistance_range(res_raw)
           pow == get_power_range(pow_raw)
       IN IF res.result # "Ok"
          THEN /\ fit_ctor' = [result |-> res.result, at |-> "get_resistance_range",
                               len |-> Len(res_raw)]
               /\ UNCHANGED <<power_range, writes, bike_sub, ctl_pc>>
          ELSE IF pow.result # "Ok"
          THEN /\ fit_ctor' = [result |-> pow.result, at |-> "get_power_range",
                               len |-> Len(pow_raw)]
               /\ UNCHANGED <<power_range, writes, bike_sub, ctl_pc>>
          ELSE /\ fit_ctor' = [result |-> "ok"]
               /\ power_range' = pow.range
               /\ writes' = <<[by |-> "new", frame |-> <<OpRequestControl>>,
                               outstanding |-> 0]>>
               /\ bike_sub' = TRUE
               /\ ctl_pc' = "spawned"
    /\ UNCHANGED <<pumpRest, bus_sub, cp_sub, cp_q, pump, pn_log, pn_last>>

\* handle_notifications: notifications.next() yields n
PumpNotify(n) ==
    /\ pump = "running"
    /\ fit_ctor.result \in {"none", "ok"}
    /\ Len(pn_log) < MaxNotifs
    /\ LET h == Handle(n) IN
       /\ pn_last' = [uuid |-> n.uuid, value |-> n.value, outcome |-> h.outcome,
                      decoded |-> h.decoded, receivers |-> Receivers(n.uuid)]
       /\ pn_log' = Append(pn_log, h.outcome)
       /\ pump' = IF h.outcome = "panic" THEN "panicked" ELSE "running"
       /\ cp_q' = IF n.uuid = "CONTROL_POINT" /\ h.outcome = "sent"
                  THEN Append(cp_q, h.decoded.data) ELSE cp_q
    /\ UNCHANGED <<pumpRest, bus_sub, cp_sub, ctl_pc, writes, power_range,
                   fit_ctor, bike_sub>>

\* the driver as subscribe_to_characteristics leaves it: nothing is read
\* yet and nobody holds a receiver
PumpFresh ==
    /\ now = 0
    /\ workout = <<>>
    /\ workouts = <<>>
    /\ current_step = NoneVal
    /\ pending = NoneVal
    /\ timers = {}
    /\ workout_state = NoneVal
    /\ nextTick = 0
    /\ cmds = <<>>
    /\ ncmds = 0
    /\ emitted = <<>>
    /\ subs = [i \in SubIds |-> "none"]
    /\ paused = FALSE
    /\ everPaused = FALSE
    /\ everSkipped = FALSE
    /\ lastSkip = NoneVal
    /\ ended = "no"
    /\ rstate = "spawned"
    /\ routerExits = 0
    /\ state_tx_app = TRUE
    /\ state_tx_router = TRUE
    /\ bus_sub = FALSE
    /\ bus_q = <<>>
    /\ sent = <<>>
    /\ received = <<>>
    /\ ctl_pc = "unborn"
    /\ cp_sub = FALSE
    /\ cp_q = <<>>
    /\ periph_q = <<>>
    /\ writes = <<>>
    /\ power_range = NoneVal
    /\ set_power_log = <<>>
    /\ cp_wait = NoneVal
    /\ pump = "running"
    /\ sigint = FALSE
    /\ disconnected = FALSE
    /\ ctor = [result |-> "ok"]
    /\ StepIdle
    /\ InputIdle
    /\ fit_ctor = [result |-> "none"]
    /\ bike_sub = FALSE
    /\ pn_log = <<>>
    /\ ScanIdle
    /\ BcastIdle

\* subscribe_to_characteristics has spawned the pump
InitPump ==
    /\ PumpFresh
    /\ pn_last = [uuid |-> "none"]

NextPump ==
    \/ \E r \in RangePayloads, p \in RangePayloads : ConnectToFit(r, p)
    \/ \E n \in Notifications : PumpNotify(n)
    \/ CtlStart
    \/ CtlSubscribeCp
    \/ PumpExit

SpecPump == InitPump /\ [][NextPump]_vars

\* ======================================================= SpecParse (4.9)
\* handle_bike_data_notification on every packet of BikeValues
InitParse ==
    /\ PumpFresh
    /\ \E v \in BikeValues :
          pn_last = [uuid |-> "INDOOR_BIKE_DATA", value |-> v, outcome |-> "pending",
                     receivers |-> 0]

\* the pump's INDOOR_BIKE_DATA arm on the packet
ParseBikeData ==
    /\ pn_last.outcome = "pending"
    /\ LET h == Handle([uuid |-> pn_last.uuid, value |-> pn_last.value]) IN
       /\ pn_last' = [pn_last EXCEPT !.outcome = h.outcome] @@ [decoded |-> h.decoded]
       /\ pn_log' = Append(pn_log, h.outcome)
       /\ pump' = IF h.outcome = "panic" THEN "panicked" ELSE "running"
    /\ UNCHANGED <<pumpRest, bus_sub, cp_sub, cp_q, ctl_pc, writes, power_range,
                   fit_ctor, bike_sub>>

NextParse == ParseBikeData

SpecParse == InitParse /\ [][NextParse]_vars

\* ------------------------------------------------------------- C38
\* the sizes the fields of bits 1-7, 11 and 12 are said to have
ClaimedSize ==
    [i \in SupportedBits |->
        IF i <= 7 THEN <<2, 2, 2, 3, 1, 2, 2>>[i] ELSE <<2, 2>>[i - 10]]

\* the flag bits a packet carries
PacketBits(raw) == {i \in 0..15 : FlagSet(read_u16(raw, 0), i)}

\* where the field of bit i is said to start: after the flags, the
\* instantaneous speed and the present fields of lower bits
ClaimedOffset(F, i) ==
    2 + 2 + SumOver({j \in F : j < i}, ClaimedSize)

\* the n bytes at offset off as an unsigned little-endian number
RECURSIVE LE(_, _, _)
LE(raw, off, n) ==
    IF n = 0 THEN 0 ELSE raw[off + 1] + 256 * LE(raw, off + 1, n - 1)

\* the unsigned number a decoded field was read from
RawOf(i, v) ==
    CASE i \in {0, 1} -> IF v.den = 100 THEN v.num ELSE -1
      [] i \in {2, 3} -> IF v.den = 10 THEN v.num ELSE -1
      [] i = 5 -> IF v.den = 1 /\ v.num % 10 = 0 THEN v.num \div 10 ELSE -1
      [] i \in {6, 7} -> (v + 65536) % 65536
      [] OTHER -> v

\* the packet has bit 0 clear, only supported bits set and all its bytes
WellFormedPacket(raw) ==
    /\ Len(raw) >= 4
    /\ PacketBits(raw) \subseteq SupportedBits
    /\ Len(raw) >= 2 + 2 + SumOver(PacketBits(raw), ClaimedSize)

\* C38: a bike-data packet with bit 0 clear and only supported bits set is
\* decoded without a failure: the instantaneous speed is the two bytes at
\* offset 2, every field of a set bit is the bytes at the running cursor
\* (sizes 2,2,2,3,1,2,2 for bits 1-7 and 2,2 for bits 11,12, in ascending
\* bit order), a field is set exactly when its bit is set, and the cursor
\* ends at 2 + 2 + the sizes of the present fields.
C38_BikeDataLayout ==
    (/\ pn_last.uuid = "INDOOR_BIKE_DATA"
     /\ pn_last.outcome # "pending"
     /\ WellFormedPacket(pn_last.value))
    => LET raw == pn_last.value
           F == PacketBits(raw)
           r == pn_last.decoded
       IN /\ ~r.panic
          /\ r.data["inst_speed"].some
          /\ RawOf(0, r.data["inst_speed"].v) = LE(raw, 2, 2)
          /\ \A i \in SupportedBits :
                /\ r.data[FieldName(i)].some <=> i \in F
                /\ i \in F =>
                     RawOf(i, r.data[FieldName(i)].v)
                        = LE(raw, ClaimedOffset(F, i), ClaimedSize[i])
          /\ r.cursor = 2 + 2 + SumOver(F, ClaimedSize)

\* a packet with every supported field was decoded up to its last byte
C38_Witness ==
    /\ pn_last.uuid = "INDOOR_BIKE_DATA"
    /\ pn_last.outcome = "no_receiver"
    /\ PacketBits(pn_last.value) = SupportedBits
    /\ pn_last.decoded.cursor = 22
    /\ pn_last.decoded.data["tot_distance"] = Some(LE(pn_last.value, 10, 3))
    /\ pn_last.decoded.data["remaining_time"] = Some(LE(pn_last.value, 20, 2))

\* ------------------------------------------------------------- C31
\* the notification is one of those said to fail to decode
Undecodable(uuid, raw) ==
    CASE uuid = "CONTROL_POINT" ->
            /\ Len(raw) >= 3
            /\ \/ raw[1] # 128
               \/ raw[2] \notin ControlPointOpCodes
               \/ raw[3] \notin ControlPointResults
      [] uuid = "INDOOR_BIKE_DATA" ->
            /\ Len(raw) >= 4
            /\ PacketBits(raw) \cap ({0} \cup UnimplementedBits) # {}
      [] uuid = "MACHINE_STATUS" ->
            /\ Len(raw) >= 1
            /\ raw[1] \notin MachineStatusOpCodes
      [] OTHER -> FALSE

\* C31: a notification that fails to decode (control-point indication with
\* a first byte other than 0x80 or an unknown opcode or status, bike-data
\* packet with bit 0 or one of bits 8, 9, 10 set, unknown machine-status
\* opcode) is dropped and the pump goes on to the following notifications.
C31_UndecodableDropped ==
    (pn_last.uuid # "none" /\ Undecodable(pn_last.uuid, pn_last.value))
    => /\ pump # "panicked"
       /\ pn_last.outcome # "panic"

C40_BadLengthIsError ==
    (fit_ctor.result \notin {"none", "ok"} /\ fit_ctor.len # 6)
    => fit_ctor.result = "Err"

\* ======================================================= SpecScan (4.4)
\* BleClient::find_service: the loop over the adapter's CentralEvents.
\* ------------------------------------------------------ bounds, inputs
\* the peripherals in range: two trainers and a device of somebody else
Devices == {"s1", "s2", "h"}

\* properties().local_name
local_name(d) == IF d \in {"s1", "s2"} THEN "SUITO" ELSE "Headphones"

\* which devices expose the service looked for
ServiceMaps == [Devices -> BOOLEAN]

DeviceDiscovered(d) == [ev |-> "DeviceDiscovered", id |-> d]
DeviceConnected(d) == [ev |-> "DeviceConnected", id |-> d]

\* ------------------------------------------------------------ adapter
scanRest == <<now, engineVars, routerVars, pubVars, obsVars, ctlVars, ctor,
              inVars, stepVars, fit_ctor, bike_sub, pn_log, pn_last, bcVars>>

\* the adapter sees an advertisement of d for the first time
AdapterDiscovers(d) ==
    /\ scan_pc = "scanning"
    /\ ~scan_dev[d].discovered
    /\ scan_dev' = [scan_dev EXCEPT ![d].discovered = TRUE]
    /\ scan_events' = Append(scan_events, DeviceDiscovered(d))
    /\ UNCHANGED <<scanRest, scan_pc, scan_flag, scan_ret>>

\* a device this program does not look for is connected to the host by
\* somebody else; the adapter reports it like any connection
ExternalConnects(d) ==
    /\ scan_pc = "scanning"
    /\ local_name(d) # "SUITO"
    /\ scan_dev[d].link = "none"
    /\ ~scan_dev[d].checked
    /\ scan_dev' = [scan_dev EXCEPT ![d].link = "other"]
    /\ scan_events' = Append(scan_events, DeviceConnected(d))
    /\ UNCHANGED <<scanRest, scan_pc, scan_flag, scan_ret>>

\* ------------------------------------------------------- find_service
\* the DeviceDiscovered arm; connect_ok is the outcome of peripheral.connect()
ScanDiscovered(connect_ok) ==
    /\ scan_pc = "scanning"
    /\ scan_events # <<>>
    /\ Head(scan_events).ev = "DeviceDiscovered"
    /\ LET d == Head(scan_events).id IN
       IF scan_flag.connection_successful \/ local_name(d) # "SUITO" \/ ~connect_ok
       THEN /\ scan_events' = Tail(scan_events)
            /\ UNCHANGED <<scan_flag, scan_dev>>
       ELSE /\ scan_events' = Append(Tail(scan_events), DeviceConnected(d))
            /\ scan_dev' = [scan_dev EXCEPT ![d].link = "find_service"]
            /\ scan_flag' = [connection_successful |-> TRUE,
                             connected_device |-> local_name(d)]
    /\ UNCHANGED <<scanRest, scan_pc, scan_ret>>

\* the DeviceConnected arm: discover_services, then return the peripheral
\* or disconnect it and clear the flag
ScanConnected ==
    /\ scan_pc = "scanning"
    /\ scan_events # <<>>
    /\ Head(scan_events).ev = "DeviceConnected"
    /\ LET d == Head(scan_events).id IN
       IF scan_dev[d].has_service
       THEN /\ scan_pc' = "returned"
            /\ scan_ret' = Some(d)
            /\ scan_dev' = [scan_dev EXCEPT ![d].checked = TRUE]
            /\ scan_events' = Tail(scan_events)
            /\ UNCHANGED scan_flag
       ELSE /\ scan_dev' = [scan_dev EXCEPT ![d].checked = TRUE, ![d].link = "none"]
            /\ scan_flag' = [connection_successful |-> FALSE,
                             connected_device |-> "Not set"]
            /\ scan_events' = Tail(scan_events)
            /\ UNCHANGED <<scan_pc, scan_ret>>
    /\ UNCHANGED scanRest

\* events.next() yields None: Ok(None)
ScanStreamEnds ==
    /\ scan_pc = "scanning"
    /\ scan_events = <<>>
    /\ scan_pc' = "ended"
    /\ UNCHANGED <<scanRest, scan_flag, scan_events, scan_dev, scan_ret>>

\* find_service after start_scan and adapter.events()
InitScan ==
    /\ now = 0
    /\ workout = <<>>
    /\ workouts = <<>>
    /\ current_step = NoneVal
    /\ pending = NoneVal
    /\ timers = {}
    /\ workout_state = NoneVal
    /\ nextTick = 0
    /\ cmds = <<>>
    /\ ncmds = 0
    /\ emitted = <<>>
    /\ subs = [i \in SubIds |-> "none"]
    /\ paused = FALSE
    /\ everPaused = FALSE
    /\ everSkipped = FALSE
    /\ lastSkip = NoneVal
    /\ ended = "no"
    /\ rstate = "spawned"
    /\ routerExits = 0
    /\ state_tx_app = TRUE
    /\ state_tx_router = TRUE
    /\ bus_sub = FALSE
    /\ bus_q = <<>>
    /\ sent = <<>>
    /\ received = <<>>
    /\ ctl_pc = "unborn"
    /\ cp_sub = FALSE
    /\ cp_q = <<>>
    /\ periph_q = <<>>
    /\ writes = <<>>
    /\ power_range = NoneVal
    /\ set_power_log = <<>>
    /\ cp_wait = NoneVal
    /\ pump = "unborn"
    /\ sigint = FALSE
    /\ disconnected = FALSE
    /\ ctor = [result |-> "ok"]
    /\ StepIdle
    /\ InputIdle
    /\ fit_ctor = [result |-> "none"]
    /\ bike_sub = FALSE
    /\ pn_log = <<>>
    /\ pn_last = [uuid |-> "none"]
    /\ BcastIdle
    /\ scan_pc = "scanning"
    /\ scan_flag = [connection_successful |-> FALSE, connected_device |-> "Not set"]
    /\ scan_events = <<>>
    /\ \E m \in ServiceMaps :
          scan_dev = [d \in Devices |->
                         [link |-> "none", discovered |-> FALSE, checked |-> FALSE,
                          has_service |-> m[d]]]
    /\ scan_ret = NoneVal

NextScan ==
    \/ \E d \in Devices : AdapterDiscovers(d)
    \/ \E d \in Devices : ExternalConnects(d)
    \/ \E ok \in BOOLEAN : ScanDiscovered(ok)
    \/ ScanConnected
    \/ ScanStreamEnds

SpecScan == InitScan /\ [][NextScan]_vars

\* ------------------------------------------------------------- C39
\* devices find_service has connected and not yet looked at the services of
Unverified == {d \in Devices : scan_dev[d].link = "find_service" /\ ~scan_dev[d].checked}

\* devices find_service has connected and not disconnected
ConnectedByScan == {d \in Devices : scan_dev[d].link = "find_service"}

\* C39: find_service returns a peripheral only after its DeviceConnected
\* event and a service discovery that shows the service; while a device it
\* connected is not yet verified, it has connected no other device; a
\* device found without the service is disconnected and the scan is open
\* to the devices discovered later.
C39_FindService ==
    /\ scan_pc = "returned" =>
          /\ scan_ret.some
          /\ scan_dev[scan_ret.v].checked
          /\ scan_dev[scan_ret.v].has_service
    /\ \A d \in Unverified : ConnectedByScan = {d}
    /\ \A d \in Devices :
          (scan_dev[d].checked /\ ~scan_dev[d].has_service) =>
              scan_dev[d].link = "none"
    /\ (scan_pc = "scanning" /\ Unverified = {}) => ~scan_flag.connection_successful

\* the part of C39 that holds: what is returned was verified, and a
\* device without the service does not stay connected
C39_ReturnedIsVerified ==
    /\ scan_pc = "returned" =>
          /\ scan_ret.some
          /\ scan_dev[scan_ret.v].checked
          /\ scan_dev[scan_ret.v].has_service
    /\ \A d \in Devices :
          (scan_dev[d].checked /\ ~scan_dev[d].has_service) =>
              scan_dev[d].link = "none"

\* ==================================================== SpecBcast (4.11)
\* The two broadcast channels main creates, the workout task that sends on
\* both, and the receivers that read them at their own pace.
\* ------------------------------------------------------ bounds, inputs
\* messages the workout task sends over a run, both channels together
MaxSent == 18

\* tokio::sync::broadcast::channel(16)
BroadcastCapacity == 16

\* trainer_commands (UserCommands) and workout_state (WorkoutState)
Channels == {"trainer_commands", "workout_state"}

\* the receivers that are read: the control task, a web-socket actor and
\* an HTTP stream.  main's _command_rx and _rx are held and never read.
Receivers_bc == {"control", "ws", "http"}

ChannelOf(s) == IF s = "control" THEN "trainer_commands" ELSE "workout_state"

\* what each receiver does with RecvError::Lagged: the control task's
\* `while let Ok(..)` ends, the actor's msg.unwrap() panics, the HTTP
\* stream's `element?` yields an error item that ends the response
OnLagged(s) ==
    CASE s = "control" -> "exited"
      [] s = "ws" -> "panicked"
      [] s = "http" -> "ended"

\* main's spawned block after control_fit_machine returns:
\* workout_join_handle.abort()
AfterControlExit(prod) == IF prod = "running" THEN "aborted" ELSE prod

TotalSent == bc_sent["trainer_commands"] + bc_sent["workout_state"]

\* ------------------------------------------------------------ actions
bcRest == <<now, engineVars, routerVars, pubVars, obsVars, ctlVars, ctor,
            inVars, stepVars, fit_ctor, bike_sub, pn_log, pn_last, scanVars>>

\* Sender::send: the value takes the next slot, the oldest one is given
\* up when the ring is full; nothing is awaited
BcSend(ch) ==
    /\ bc_prod = "running"
    /\ TotalSent < MaxSent
    /\ bc_sent' = [bc_sent EXCEPT ![ch] = @ + 1]
    /\ UNCHANGED <<bcRest, bc_rx, bc_prod>>

\* Receiver::recv of receiver s returns: the next message, or Lagged(n)
\* when more than the capacity was sent since its last read, and then the
\* receiver's reaction
BcRecv(s) ==
    /\ bc_rx[s].status = "live"
    /\ bc_rx[s].pos < bc_sent[ChannelOf(s)]
    /\ LET behind == bc_sent[ChannelOf(s)] - bc_rx[s].pos IN
       IF behind > BroadcastCapacity
       THEN /\ bc_rx' = [bc_rx EXCEPT
                            ![s].pos = bc_sent[ChannelOf(s)] - BroadcastCapacity,
                            ![s].lost = @ + (behind - BroadcastCapacity),
                            ![s].status = OnLagged(s)]
            /\ bc_prod' = IF s = "control" THEN AfterControlExit(bc_prod) ELSE bc_prod
       ELSE /\ bc_rx' = [bc_rx EXCEPT ![s].pos = @ + 1]
            /\ UNCHANGED bc_prod
    /\ UNCHANGED <<bcRest, bc_sent>>

\* main after its spawns, with a web-socket client and an HTTP stream
\* connected
InitBcast ==
    /\ now = 0
    /\ workout = <<>>
    /\ workouts = <<>>
    /\ current_step = NoneVal
    /\ pending = NoneVal
    /\ timers = {}
    /\ workout_state = NoneVal
    /\ nextTick = 0
    /\ cmds = <<>>
    /\ ncmds = 0
    /\ emitted = <<>>
    /\ subs = [i \in SubIds |-> "none"]
    /\ paused = FALSE
    /\ everPaused = FALSE
    /\ everSkipped = FALSE
    /\ lastSkip = NoneVal
    /\ ended = "no"
    /\ rstate = "spawned"
    /\ routerExits = 0
    /\ state_tx_app = TRUE
    /\ state_tx_router = TRUE
    /\ bus_sub = FALSE
    /\ bus_q = <<>>
    /\ sent = <<>>
    /\ received = <<>>
    /\ ctl_pc = "unborn"
    /\ cp_sub = FALSE
    /\ cp_q = <<>>
    /\ periph_q = <<>>
    /\ writes = <<>>
    /\ power_range = NoneVal
    /\ set_power_log = <<>>
    /\ cp_wait = NoneVal
    /\ pump = "unborn"
    /\ sigint = FALSE
    /\ disconnected = FALSE
    /\ ctor = [result |-> "ok"]
    /\ StepIdle
    /\ InputIdle
    /\ fit_ctor = [result |-> "ok"]
    /\ bike_sub = TRUE
    /\ pn_log = <<>>
    /\ pn_last = [uuid |-> "none"]
    /\ ScanIdle
    /\ bc_sent = [ch \in Channels |-> 0]
    /\ bc_rx = [s \in Receivers_bc |-> [pos |-> 0, lost |-> 0, status |-> "live"]]
    /\ bc_prod = "running"

NextBcast ==
    \/ \E ch \in Channels : BcSend(ch)
    \/ \E s \in Receivers_bc : BcRecv(s)

SpecBcast == InitBcast /\ [][NextBcast]_vars

\* ------------------------------------------------------------- C33
\* receivers that have run into a Lagged error
Lagged == {s \in Receivers_bc : bc_rx[s].lost > 0}

\* C33: a send on a broadcast channel is never held up by the receivers;
\* a receiver more than 16 messages behind loses the oldest ones; neither
\* the sending task nor the other receivers are stopped by that.
C33_LagStopsNobodyElse ==
    /\ (bc_prod = "running" /\ TotalSent < MaxSent) =>
          \E ch \in Channels : ENABLED BcSend(ch)
    /\ \A s \in Lagged : bc_rx[s].pos >= bc_rx[s].lost
    /\ Lagged # {} => bc_prod = "running"
    /\ \A s \in Receivers_bc \ Lagged : bc_rx[s].status = "live"

\* the parts of C33 that hold: no receiver holds a send up, and a lagging
\* receiver stops no other receiver
C33_SendNeverWaits ==
    /\ (bc_prod = "running" /\ TotalSent < MaxSent) =>
          \A ch \in Channels : ENABLED BcSend(ch)
    /\ \A s \in Receivers_bc \ Lagged : bc_rx[s].status = "live"

====
